---- MODULE Spec2Model ----
(***************************************************************************)
(* Verification model of the HandMat capture pipeline:                     *)
(*   - the detection gate (UnifiedDetectionService),                       *)
(*   - the capture loop that drives it (WebcamCapture.runDetection),       *)
(*   - the seeded shuffle / split helpers,                                 *)
(*   - the dataset export that applies the split per class.                *)
(* Times are milliseconds, detection scores are hundredths (0.9 = 90).     *)
(***************************************************************************)
EXTENDS Integers, Naturals, Sequences, FiniteSets, TLC

VARIABLES
    DETECT,          \* the DETECT configuration object of the deployment
    settings,        \* SettingsManager: the detection settings it holds
    settingChanges,  \* number of times a control of the SettingsDrawer was moved
    detection,       \* UnifiedDetectionService.detection
    lastDetection,   \* UnifiedDetectionService.lastDetection
    now,             \* performance.now()
    prevCaptureTime, \* observer: timestamp of the CAPTURE entry before the last one
    captureCount,    \* observer: number of CAPTURE entries so far
    runStart,        \* observer: timestamp of the first update of the current steady run
    runCaptures,     \* observer: CAPTURE entries inside the current steady run
    validFaceSeen,   \* observer: some update so far reported a valid face
    validHandSeen,   \* observer: some update so far reported a valid hand
    handRunStart,    \* observer: timestamp of the first update of the current hand-only run
    handRunCaptures, \* observer: CAPTURE entries inside the current hand-only run
    interrupted,     \* observer: an update since stableStartTime was armed reported
                     \*   the required detections lost or unstable
    isPaused,        \* WebcamCapture: isPaused state
    mounted,         \* WebcamCapture: the component is mounted
    isCapturing,     \* WebcamCapture: isCapturing prop (Index: isRecognizing)
    pendingOnCapture,\* handleAutoCapture bodies that have not yet called onCapture
    lastFrameTime,   \* WebcamCapture: lastFrameTimeRef.current
    awaiting,        \* detect() calls awaiting faceService.detectFaces
    microtasks,      \* the microtask queue: continuations ready to run
    autoCaptures,    \* observer: invocations of handleAutoCapture by runDetection
    countdownProgress, \* WebcamCapture: what getCountdownProgress() returned at the last render
    manualCaptures,  \* observer: invocations of handleAutoCapture by handleManualCapture
    generator,       \* state of the generator the last shuffle created
    call,            \* arguments of the last createSplitIndices call
    result,          \* what the last createSplitIndices call returned
    ref,             \* observer: arguments and result of the first call
    calls,           \* observer: number of createSplitIndices calls made
    classes,         \* Dataset page: classes state
    samples,         \* Dataset page: samples state
    classesAdded,    \* number of class ids handed out so far
    samplesCaptured, \* number of sample ids handed out so far
    shuffleModule,   \* the module behind export-zip's import of createSplitIndices
    archive,         \* what the last exportDataset call wrote
    capturePanel,    \* dataset CapturePanel: Space key, burst timer, capture state
    service,         \* which detector service the instance is
    isInitialized,   \* the instance's isInitialized field
    isInitializing,  \* the instance's isInitializing field
    initCalls,       \* the initialize() calls made on the instance, in order
    orphanLoads,     \* loads still running after their initialize() call timed out
    frame,           \* the ImageData-shaped object handed to a quality function
    quality,         \* the last quality function call: function, other frame, value
    integrated,      \* integratedDetectionService and its initialize() calls
    items,           \* feed store: items, newest first
    memoryUsage,     \* feed store: memoryUsage, in MB
    feedAdds,        \* number of feed item ids handed out so far
    lastOp           \* observer: the last feed-store operation, its id argument
                     \* and the ids of the items it took out of the feed

gateVars == <<DETECT, settings, settingChanges, detection, lastDetection, now,
              prevCaptureTime, captureCount, runStart, runCaptures,
              validFaceSeen, validHandSeen, handRunStart, handRunCaptures,
              interrupted>>

loopVars == <<isPaused, mounted, isCapturing, pendingOnCapture, lastFrameTime,
              awaiting, microtasks, autoCaptures, countdownProgress,
              manualCaptures>>

splitVars == <<generator, call, result, ref, calls>>

datasetVars == <<classes, samples, classesAdded, samplesCaptured, shuffleModule,
                 archive, capturePanel>>

serviceVars == <<service, isInitialized, isInitializing, initCalls, orphanLoads,
                 frame, quality, integrated>>

storeVars == <<items, memoryUsage, feedAdds, lastOp>>

vars == <<gateVars, loopVars, splitVars, datasetVars, serviceVars, storeVars>>

----------------------------------------------------------------------------
(* Bounds of the model *)

MaxTime == 2700
MaxCaptures == 2
LoopMaxTime == 800
MaxInFlight == 2
MaxN == 10
MaxCalls == 3
MaxClasses == 2
MaxSamples == 7
MaxSettingChanges == 1
MaxManualCaptures == 1
MaxAdds == 5
MaxPresses == 3
MaxIntegratedCalls == 4
MaxInitCalls == 3

----------------------------------------------------------------------------
(* Configuration: config/app.ts *)

POLL_MS == 100
SCORE_FACE == 90
SCORE_HAND == 85
MOVE_PX_MAX == 10
STABILITY_MS == 300
AUTO_CAPTURE_DELAY_MS == 2000
COOLDOWN_MS == 1500
REQUIRE_FACE_FOR_CAPTURE == TRUE

DefaultDETECT ==
    [STABILITY_MS |-> STABILITY_MS,
     AUTO_CAPTURE_DELAY_MS |-> AUTO_CAPTURE_DELAY_MS,
     COOLDOWN_MS |-> COOLDOWN_MS,
     REQUIRE_FACE_FOR_CAPTURE |-> REQUIRE_FACE_FOR_CAPTURE]

\* The DETECT object is a per-deployment configuration: the shipped defaults,
\* and two overrides with short windows (one of them hand-only) in which a
\* second capture fits into MaxTime.
Deployments ==
    { DefaultDETECT,
      [STABILITY_MS |-> 150, AUTO_CAPTURE_DELAY_MS |-> 200,
       COOLDOWN_MS |-> 1000, REQUIRE_FACE_FOR_CAPTURE |-> TRUE],
      [STABILITY_MS |-> 150, AUTO_CAPTURE_DELAY_MS |-> 200,
       COOLDOWN_MS |-> 1000, REQUIRE_FACE_FOR_CAPTURE |-> FALSE] }

----------------------------------------------------------------------------
(* Detections *)

Null == [present |-> FALSE, x |-> 0, y |-> 0, score |-> 0]

Det(x, y, s) == [present |-> TRUE, x |-> x, y |-> y, score |-> s]

\* What the detectors report in the model: nothing, a box below the score
\* threshold, a box at the threshold, and a box at the threshold that is
\* MOVE_PX_MAX away from the others.
FaceInputs == { Null, Det(0, 0, SCORE_FACE - 1), Det(0, 0, SCORE_FACE),
                Det(0, MOVE_PX_MAX, SCORE_FACE) }
HandInputs == { Null, Det(0, 0, SCORE_HAND - 1), Det(0, 0, SCORE_HAND),
                Det(MOVE_PX_MAX, 0, SCORE_HAND) }

NewDetection ==
    [face |-> Null, hand |-> Null, state |-> "SEARCHING",
     stableStartTime |-> 0, countdownStartTime |-> 0, lastCaptureTime |-> 0]

\* lastDetection = null
NoDetection == [NewDetection EXCEPT !.state = "null"]

Abs(n) == IF n < 0 THEN -n ELSE n

isBoxStable(current, previous, threshold) ==
    LET dx == Abs(current.x - previous.x)
        dy == Abs(current.y - previous.y)
    IN  dx < threshold /\ dy < threshold

isHandStable(current, previous, threshold) ==
    IF ~current.present \/ ~previous.present THEN FALSE
    ELSE LET dx == Abs(current.x - previous.x)
             dy == Abs(current.y - previous.y)
         IN  dx < threshold /\ dy < threshold

isStable(currentHand, currentFace, prevHand, prevFace) ==
    LET handStable == ~currentHand.present \/ ~prevHand.present
                        \/ isHandStable(currentHand, prevHand, MOVE_PX_MAX)
        faceStable == ~currentFace.present \/ ~prevFace.present
                        \/ isBoxStable(currentFace, prevFace, MOVE_PX_MAX)
    IN  handStable /\ faceStable

\* Mutant: any reported face counts, whatever its score.
hasValidFaceOf_anyScore(face) == face.present

hasValidFaceOf(face) == face.present /\ face.score >= SCORE_FACE
\* Mutant: a hand at the threshold does not count.
hasValidHandOf_above(hand) == hand.present /\ hand.score > SCORE_HAND

hasValidHandOf(hand) == hand.present /\ hand.score >= SCORE_HAND

\* Mutant: the cooldown is measured against the stability window.
CooldownElapsed_stability(timestamp, lastCaptureTime, cfg) ==
    timestamp - lastCaptureTime >= cfg.STABILITY_MS

\* COOLDOWN case of updateDetectionState
CooldownElapsed(timestamp, lastCaptureTime, cfg) ==
    timestamp - lastCaptureTime >= cfg.COOLDOWN_MS

\* Mutant: the stability window must be exceeded, not just reached.
StabilityElapsed_strict(timestamp, stableStartTime, cfg) ==
    timestamp - stableStartTime > cfg.STABILITY_MS

\* LOCK_HAND / LOCK_BOTH: the stability window has elapsed
StabilityElapsed(timestamp, stableStartTime, cfg) ==
    timestamp - stableStartTime >= cfg.STABILITY_MS

\* STABLE: the countdown has elapsed
CountdownElapsed(timestamp, countdownStartTime, cfg) ==
    timestamp - countdownStartTime >= cfg.AUTO_CAPTURE_DELAY_MS

\* The detection record after updateDetectionState(hand, face, timestamp),
\* prev being this.lastDetection at entry.
updateDetectionState(d0, prev, hand, face, timestamp, cfg) ==
    LET d == [d0 EXCEPT !.face = face, !.hand = hand]
        hasValidFace == hasValidFaceOf(face)
        hasValidHand == hasValidHandOf(hand)
        requireFace == cfg.REQUIRE_FACE_FOR_CAPTURE
        stable == isStable(hand, face, prev.hand, prev.face)
        valid == IF requireFace THEN hasValidFace /\ hasValidHand ELSE hasValidHand
        lockStep ==
            IF stable
            THEN IF d.stableStartTime = 0
                 THEN [d EXCEPT !.stableStartTime = timestamp]
                 ELSE IF StabilityElapsed(timestamp, d.stableStartTime, cfg)
                      THEN [d EXCEPT !.state = "STABLE"]
                      ELSE d
            ELSE [d EXCEPT !.stableStartTime = 0]
    IN  CASE d.state = "SEARCHING" ->
               IF hasValidFace /\ ~hasValidHand THEN [d EXCEPT !.state = "LOCK_FACE"]
               ELSE IF ~hasValidFace /\ hasValidHand THEN [d EXCEPT !.state = "LOCK_HAND"]
               ELSE IF hasValidFace /\ hasValidHand THEN [d EXCEPT !.state = "LOCK_BOTH"]
               ELSE d
          [] d.state = "LOCK_FACE" ->
               IF hasValidHand THEN [d EXCEPT !.state = "LOCK_BOTH"]
               ELSE IF ~hasValidFace THEN [d EXCEPT !.state = "SEARCHING"]
               ELSE d
          [] d.state = "LOCK_HAND" ->
               IF hasValidFace THEN [d EXCEPT !.state = "LOCK_BOTH"]
               ELSE IF ~hasValidHand THEN [d EXCEPT !.state = "SEARCHING"]
               ELSE IF ~requireFace THEN lockStep
               ELSE d
          [] d.state = "LOCK_BOTH" ->
               IF ~valid
               THEN [d EXCEPT !.state = "SEARCHING", !.stableStartTime = 0]
               ELSE lockStep
          [] d.state = "STABLE" ->
               IF ~valid \/ ~stable
               THEN [d EXCEPT !.state = "LOCK_BOTH", !.stableStartTime = 0,
                              !.countdownStartTime = 0]
               ELSE IF d.countdownStartTime = 0
                    THEN [d EXCEPT !.countdownStartTime = timestamp]
                    ELSE IF CountdownElapsed(timestamp, d.countdownStartTime, cfg)
                         THEN [d EXCEPT !.state = "CAPTURE", !.lastCaptureTime = timestamp]
                         ELSE d
          [] d.state = "CAPTURE" ->
               [d EXCEPT !.state = "COOLDOWN", !.stableStartTime = 0,
                         !.countdownStartTime = 0]
          [] d.state = "COOLDOWN" ->
               IF CooldownElapsed(timestamp, d.lastCaptureTime, cfg)
               THEN [d EXCEPT !.state = "SEARCHING"]
               ELSE d
          [] OTHER -> d

shouldCapture == detection.state = "CAPTURE"

\* A call of updateDetectionState raises a TypeError when it reads a field of
\* null or undefined. It reads the score of a face or hand behind its
\* `face &&` / `hand &&` test and, where the switch calls isStable, the boxes
\* of a pair behind `!current || !previous`.
UpdateRaises(d0, prev, hand, face, cfg) ==
    LET hasValidFace == hasValidFaceOf(face)
        hasValidHand == hasValidHandOf(hand)
        requireFace == cfg.REQUIRE_FACE_FOR_CAPTURE
        valid == IF requireFace THEN hasValidFace /\ hasValidHand ELSE hasValidHand
        stabilityChecked ==
            \/ d0.state = "LOCK_HAND" /\ ~hasValidFace /\ hasValidHand /\ ~requireFace
            \/ d0.state \in {"LOCK_BOTH", "STABLE"} /\ valid
        dereferenced ==
            (IF face.present THEN {face} ELSE {})
            \cup (IF hand.present THEN {hand} ELSE {})
            \cup (IF stabilityChecked
                  THEN (IF ~(~hand.present \/ ~prev.hand.present) THEN {hand, prev.hand} ELSE {})
                       \cup (IF ~(~face.present \/ ~prev.face.present) THEN {face, prev.face} ELSE {})
                  ELSE {})
    IN  \E o \in dereferenced : ~o.present

----------------------------------------------------------------------------
(* The gate driven by a sequence of update calls *)

EnteredCapture(d0, d1) == d0.state # "CAPTURE" /\ d1.state = "CAPTURE"

\* An update continues a steady run when it comes one poll interval after the
\* previous one and reports a valid face and hand, both stable.
SteadyInput(hand, face, delta) ==
    /\ hasValidFaceOf(face) /\ hasValidHandOf(hand)
    /\ IF runStart = 0
       THEN detection.state = "SEARCHING"
       ELSE /\ delta = POLL_MS
            /\ isStable(hand, face, detection.hand, detection.face)

\* The history observers after an update that reported hand and face and
\* gave d1. A detection is valid when it is there with a score at the
\* threshold. The stability window starts where the update assigns
\* stableStartTime = timestamp, and is interrupted by an update that does not
\* report the detections a capture requires (face and hand, or the hand
\* alone when the face is not required) as valid and as stable against the
\* previous update.
Observe(hand, face, d1, timestamp) ==
    LET arms == d1.stableStartTime = timestamp /\ detection.stableStartTime # timestamp
        validAndStable ==
            /\ hand.present /\ hand.score >= SCORE_HAND
            /\ DETECT.REQUIRE_FACE_FOR_CAPTURE => (face.present /\ face.score >= SCORE_FACE)
            /\ isStable(hand, face, lastDetection.hand, lastDetection.face)
    IN  /\ validFaceSeen' = (validFaceSeen \/ (face.present /\ face.score >= SCORE_FACE))
        /\ validHandSeen' = (validHandSeen \/ (hand.present /\ hand.score >= SCORE_HAND))
        /\ interrupted' = IF arms THEN FALSE ELSE interrupted \/ ~validAndStable

GateInit ==
    /\ DETECT \in Deployments
    /\ settings = [stabilityMs |-> DETECT.STABILITY_MS,
                   cooldownMs |-> DETECT.COOLDOWN_MS,
                   autoCaptureDelay |-> DETECT.AUTO_CAPTURE_DELAY_MS,
                   requireFace |-> DETECT.REQUIRE_FACE_FOR_CAPTURE]
    /\ settingChanges = 0
    /\ detection = NewDetection
    /\ lastDetection = NoDetection
    /\ now = 0
    /\ prevCaptureTime = 0
    /\ captureCount = 0
    /\ runStart = 0
    /\ runCaptures = 0
    /\ validFaceSeen = FALSE
    /\ validHandSeen = FALSE
    /\ handRunStart = 0
    /\ handRunCaptures = 0
    /\ interrupted = FALSE

\* One call of updateDetectionState at the next timestamp. An update
\* continues a hand-only run when it comes one poll interval after the
\* previous one and reports no face and a valid hand, stable against the
\* previous update; a run starts in SEARCHING.
Update(hand, face, delta) ==
    LET ts == now + delta
        d1 == updateDetectionState(detection, lastDetection, hand, face, ts, DETECT)
        entered == EnteredCapture(detection, d1)
        steady == SteadyInput(hand, face, delta)
        handOnly ==
            /\ ~face.present
            /\ hand.present /\ hand.score >= SCORE_HAND
            /\ IF handRunStart = 0
               THEN detection.state = "SEARCHING"
               ELSE /\ delta = POLL_MS
                    /\ isStable(hand, face, detection.hand, detection.face)
    IN  /\ ts <= MaxTime
        /\ captureCount + (IF entered THEN 1 ELSE 0) <= MaxCaptures
        /\ now' = ts
        /\ detection' = d1
        /\ lastDetection' = d1
        /\ prevCaptureTime' = IF entered THEN detection.lastCaptureTime ELSE prevCaptureTime
        /\ captureCount' = captureCount + (IF entered THEN 1 ELSE 0)
        /\ runStart' = IF steady THEN (IF runStart = 0 THEN ts ELSE runStart) ELSE 0
        /\ runCaptures' = IF steady
                          THEN (IF runStart = 0 THEN 0 ELSE runCaptures)
                                 + (IF entered THEN 1 ELSE 0)
                          ELSE 0
        /\ Observe(hand, face, d1, ts)
        /\ handRunStart' = IF handOnly THEN (IF handRunStart = 0 THEN ts ELSE handRunStart) ELSE 0
        /\ handRunCaptures' = IF handOnly
                              THEN (IF handRunStart = 0 THEN 0 ELSE handRunCaptures)
                                     + (IF entered THEN 1 ELSE 0)
                              ELSE 0
        /\ UNCHANGED <<DETECT, settings, settingChanges, loopVars, splitVars, datasetVars, serviceVars, storeVars>>

Deltas == { POLL_MS, 2 * POLL_MS }

GateNext ==
    \E hand \in HandInputs, face \in FaceInputs, delta \in Deltas :
        Update(hand, face, delta)

LoopIdle ==
    /\ isPaused = FALSE
    /\ mounted = TRUE
    /\ isCapturing = FALSE
    /\ pendingOnCapture = 0
    /\ lastFrameTime = 0
    /\ awaiting = {}
    /\ microtasks = <<>>
    /\ autoCaptures = 0
    /\ countdownProgress = [nan |-> FALSE, num |-> 0, den |-> 1]
    /\ manualCaptures = 0

\* No split has been computed yet.
NoCall == [impl |-> "none", n |-> 0, ratios |-> [train |-> 0, val |-> 0, test |-> 0],
           seed |-> <<>>]
NoResult == [shuffled |-> <<>>, train |-> <<>>, val |-> <<>>, test |-> <<>>]
NoRef == [call |-> NoCall, result |-> NoResult]

SplitIdle ==
    /\ generator = <<0, 0>>
    /\ call = NoCall
    /\ result = NoResult
    /\ ref = NoRef
    /\ calls = 0

\* No archive has been written.
NoArchive == [written |-> FALSE, files |-> <<>>, metadata |-> <<>>, splitSeed |-> <<>>]

\* The Dataset page as mounted: useState([]) twice, nothing exported.
DatasetIdle ==
    /\ classes = <<>>
    /\ samples = <<>>
    /\ classesAdded = 0
    /\ samplesCaptured = 0
    /\ shuffleModule = "rng"
    /\ archive = NoArchive
    /\ capturePanel = [selectedClass |-> TRUE, isCapturing |-> FALSE,
                       isBurstCapturing |-> FALSE, burstTimeoutRef |-> "null",
                       spaceDown |-> FALSE, held |-> FALSE, presses |-> 0,
                       singles |-> 0, bursts |-> 0, singles0 |-> 0, bursts0 |-> 0]

\* No frame: an ImageData of no pixels.
NoFrame == [width |-> 0, height |-> 0, data |-> <<>>]

\* The detector service svc as constructed, no initialize() call made, the
\* frame img with no quality function called on it, and the feed store as
\* created.
ServicesIdle(svc, img) ==
    /\ service = svc
    /\ isInitialized = FALSE
    /\ isInitializing = FALSE
    /\ initCalls = <<>>
    /\ orphanLoads = 0
    /\ frame = img
    /\ quality = [fn |-> "none", prev |-> NoFrame,
                  value |-> [nan |-> FALSE, num |-> 0, den |-> 1]]
    /\ integrated = [isInitialized |-> FALSE, face |-> FALSE, hand |-> FALSE,
                     calls |-> <<>>]
    /\ items = <<>>
    /\ memoryUsage = 0
    /\ feedAdds = 0
    /\ lastOp = [op |-> "none", id |-> 0, removed |-> {}]

Init == GateInit /\ LoopIdle /\ SplitIdle /\ DatasetIdle /\ ServicesIdle("FaceDetectionService", NoFrame)

\* The loop is explored on the deployments whose first capture fits into
\* LoopMaxTime.
LoopInit == Init /\ DETECT # DefaultDETECT

Next == GateNext

Spec == Init /\ [][Next]_vars

----------------------------------------------------------------------------
(* The gate while the user moves the controls of the SettingsDrawer *)

\* A control of the settings drawer is moved (handleStabilityMsChange,
\* handleCooldownMsChange, handleAutoCaptureDelayChange,
\* handleRequireFaceChange): settingsManager[key] = value. The drawer touches
\* nothing but the settings; the callbacks the page gives it are empty.
ChangeSetting(key, value) ==
    /\ settingChanges < MaxSettingChanges
    /\ settings[key] # value
    /\ settings' = [settings EXCEPT ![key] = value]
    /\ settingChanges' = settingChanges + 1
    /\ UNCHANGED <<DETECT, detection, lastDetection, now, prevCaptureTime,
                   captureCount, runStart, runCaptures, validFaceSeen,
                   validHandSeen, handRunStart, handRunCaptures, interrupted>>
    /\ UNCHANGED <<loopVars, splitVars, datasetVars, serviceVars, storeVars>>

\* The positions of the sliders that the model tries: stability 100..1000
\* step 50, cooldown 500..5000 step 250, delay 1000..5000 step 250.
SettingsInit == Init /\ DETECT = DefaultDETECT

SpecSettings ==
    SettingsInit /\
    [][ \/ GateNext
        \/ \E ms \in { 150, STABILITY_MS } : ChangeSetting("stabilityMs", ms)
        \/ \E ms \in { 1000, COOLDOWN_MS } : ChangeSetting("cooldownMs", ms)
        \/ \E ms \in { 1000, AUTO_CAPTURE_DELAY_MS } : ChangeSetting("autoCaptureDelay", ms)
        \/ \E checked \in BOOLEAN : ChangeSetting("requireFace", checked) ]_vars

----------------------------------------------------------------------------
(* The capture loop: WebcamCapture.runDetection driven by setInterval.     *)
(* Timer callbacks, UI events and detector completions are macrotasks;     *)
(* the continuations after an await are microtasks, run in FIFO order      *)
(* before the next macrotask.                                              *)

LoopHandInputs == { Null, Det(0, 0, SCORE_HAND) }
LoopFaceInputs == { Null, Det(0, 0, SCORE_FACE) }

\* The interval set by the effect exists while the component is mounted and
\* not paused (the effect's cleanup clears it).
TimerActive == mounted /\ ~isPaused

InFlight == Cardinality(awaiting) + Len(microtasks)

\* this.updateDetectionState(primaryHand, primaryFace, now) inside detect()
GateApply(hand, face, ts) ==
    LET d1 == updateDetectionState(detection, lastDetection, hand, face, ts, DETECT)
        entered == EnteredCapture(detection, d1)
    IN  /\ detection' = d1
        /\ lastDetection' = d1
        /\ prevCaptureTime' = IF entered THEN detection.lastCaptureTime ELSE prevCaptureTime
        /\ captureCount' = captureCount + (IF entered THEN 1 ELSE 0)
        /\ Observe(hand, face, d1, ts)
        /\ UNCHANGED <<DETECT, settings, settingChanges, runStart, runCaptures,
                       handRunStart, handRunCaptures>>

GateReset_keepsLast ==
    /\ detection' = NewDetection
    /\ UNCHANGED lastDetection

\* reset()
GateReset ==
    /\ detection' = NewDetection
    /\ lastDetection' = NoDetection

\* The throttle of runDetection lets the tick through.
ThrottlePassed(t) == ~(t - lastFrameTime < POLL_MS)

\* A timer callback: runDetection up to its await of detect(), and detect()
\* up to its await of detectFaces (detectHands has already returned).
Tick(hand) ==
    /\ microtasks = <<>>
    /\ TimerActive
    /\ now + POLL_MS <= LoopMaxTime
    /\ now' = now + POLL_MS
    /\ IF isCapturing \/ ~ThrottlePassed(now')
       THEN UNCHANGED <<lastFrameTime, awaiting>>
       ELSE /\ InFlight < MaxInFlight
            /\ lastFrameTime' = now'
            /\ awaiting' = awaiting \cup { [ts |-> now', hand |-> hand] }
    /\ UNCHANGED <<DETECT, settings, settingChanges, detection, lastDetection, prevCaptureTime, captureCount,
                   runStart, runCaptures, validFaceSeen, validHandSeen,
                   handRunStart, handRunCaptures, interrupted, isPaused, mounted, isCapturing,
                   pendingOnCapture, microtasks, autoCaptures>>
    /\ UNCHANGED <<countdownProgress, manualCaptures, splitVars, datasetVars, serviceVars, storeVars>>

\* The face detector resolves the promise of one awaiting call; several
\* calls may be resolved in the same macrotask, before any continuation runs.
DetectorResolves(c, face) ==
    /\ c \in awaiting
    /\ \A i \in 1..Len(microtasks) : microtasks[i].kind = "detect"
    /\ awaiting' = awaiting \ {c}
    /\ microtasks' = Append(microtasks,
                            [kind |-> "detect", ts |-> c.ts, hand |-> c.hand, face |-> face])
    /\ UNCHANGED <<gateVars, isPaused, mounted, isCapturing, pendingOnCapture,
                   lastFrameTime, autoCaptures>>
    /\ UNCHANGED <<countdownProgress, manualCaptures, splitVars, datasetVars, serviceVars, storeVars>>

\* Continuation of detect() after `await detectFaces`: select the primary
\* detections, update the gate, return a copy of the detection.
DetectCont ==
    /\ microtasks # <<>>
    /\ Head(microtasks).kind = "detect"
    /\ LET m == Head(microtasks)
       IN  /\ GateApply(m.hand, m.face, m.ts)
           /\ microtasks' = Append(Tail(microtasks), [m EXCEPT !.kind = "run"])
    /\ UNCHANGED <<now, isPaused, mounted, isCapturing, pendingOnCapture,
                   lastFrameTime, awaiting, autoCaptures>>
    /\ UNCHANGED <<countdownProgress, manualCaptures, splitVars, datasetVars, serviceVars, storeVars>>

\* Continuation of runDetection after `await detect(...)`: setDetection, then
\* handleAutoCapture() if shouldCapture().
RunCont ==
    /\ microtasks # <<>>
    /\ Head(microtasks).kind = "run"
    /\ microtasks' = Tail(microtasks)
    /\ IF shouldCapture
       THEN /\ autoCaptures' = autoCaptures + 1
            /\ pendingOnCapture' = IF mounted /\ ~isCapturing
                                   THEN pendingOnCapture + 1 ELSE pendingOnCapture
       ELSE UNCHANGED <<autoCaptures, pendingOnCapture>>
    /\ UNCHANGED <<gateVars, isPaused, mounted, isCapturing, lastFrameTime, awaiting>>
    /\ UNCHANGED <<countdownProgress, manualCaptures, splitVars, datasetVars, serviceVars, storeVars>>

\* handleAutoCapture reaches onCapture: Index.handleCapture sets isRecognizing.
OnCapture ==
    /\ microtasks = <<>>
    /\ pendingOnCapture > 0
    /\ pendingOnCapture' = pendingOnCapture - 1
    /\ isCapturing' = TRUE
    /\ UNCHANGED <<gateVars, isPaused, mounted, lastFrameTime, awaiting,
                   microtasks, autoCaptures>>
    /\ UNCHANGED <<countdownProgress, manualCaptures, splitVars, datasetVars, serviceVars, storeVars>>

\* Index.handleCapture finishes: setIsRecognizing(false).
RecognitionDone ==
    /\ microtasks = <<>>
    /\ isCapturing
    /\ pendingOnCapture = 0
    /\ isCapturing' = FALSE
    /\ UNCHANGED <<gateVars, isPaused, mounted, pendingOnCapture, lastFrameTime,
                   awaiting, microtasks, autoCaptures>>
    /\ UNCHANGED <<countdownProgress, manualCaptures, splitVars, datasetVars, serviceVars, storeVars>>

\* togglePause: flip isPaused and reset the gate.
TogglePause ==
    /\ microtasks = <<>>
    /\ mounted
    /\ ~isCapturing
    /\ isPaused' = ~isPaused
    /\ GateReset
    /\ UNCHANGED <<DETECT, settings, settingChanges, now, prevCaptureTime, captureCount, runStart, runCaptures,
                   validFaceSeen, validHandSeen, handRunStart, handRunCaptures,
                   interrupted, mounted, isCapturing, pendingOnCapture, lastFrameTime,
                   awaiting, microtasks, autoCaptures>>
    /\ UNCHANGED <<countdownProgress, manualCaptures, splitVars, datasetVars, serviceVars, storeVars>>

\* The component unmounts: the effect cleanup clears the interval.
Unmount ==
    /\ microtasks = <<>>
    /\ mounted
    /\ mounted' = FALSE
    /\ UNCHANGED <<gateVars, isPaused, isCapturing, pendingOnCapture, lastFrameTime,
                   awaiting, microtasks, autoCaptures>>
    /\ UNCHANGED <<countdownProgress, manualCaptures, splitVars, datasetVars, serviceVars, storeVars>>

LoopNext ==
    \/ \E hand \in LoopHandInputs : Tick(hand)
    \/ \E c \in awaiting, face \in LoopFaceInputs : DetectorResolves(c, face)
    \/ DetectCont
    \/ RunCont
    \/ OnCapture
    \/ RecognitionDone
    \/ TogglePause
    \/ Unmount

SpecLoop == LoopInit /\ [][LoopNext]_vars

----------------------------------------------------------------------------
(* 32-bit arithmetic.  A 32-bit word is a pair <<hi, lo>> of 16-bit halves, *)
(* so that no intermediate value leaves the range of the model's integers. *)

Half == 65536

W(hi, lo) == <<hi, lo>>

\* JavaScript computes an operand before it uses it: e, with v already
\* computed.
Strict(v, e) == IF v = v THEN e ELSE e

\* 2^k for the shift distances the generators use
Pow2(k) == IF k = 0 THEN 1 ELSE IF k = 1 THEN 2 ELSE IF k = 2 THEN 4
           ELSE IF k = 3 THEN 8 ELSE IF k = 5 THEN 32 ELSE IF k = 7 THEN 128
           ELSE IF k = 14 THEN 16384 ELSE 32768

\* x ^ y and x | y for two 4-bit values, bit by bit
XorNibble ==
    [x \in 0..15, y \in 0..15 |->
        ((x + y) % 2)
        + 2 * (((x \div 2) + (y \div 2)) % 2)
        + 4 * (((x \div 4) + (y \div 4)) % 2)
        + 8 * (((x \div 8) + (y \div 8)) % 2)]

OrNibble == [x \in 0..15, y \in 0..15 |-> x + y - (x + y - XorNibble[x, y]) \div 2]

\* a ^ b for two 16-bit values, four bits at a time
RECURSIVE Xor16(_, _)
Xor16(a, b) ==
    IF a = 0 THEN b
    ELSE IF b = 0 THEN a
    ELSE XorNibble[a % 16, b % 16] + 16 * Xor16(a \div 16, b \div 16)

\* a | b for two 16-bit values, four bits at a time
RECURSIVE Or16(_, _)
Or16(a, b) ==
    IF a = 0 THEN b
    ELSE IF b = 0 THEN a
    ELSE OrNibble[a % 16, b % 16] + 16 * Or16(a \div 16, b \div 16)

\* a ^ b
Xor32(a, b) == W(Xor16(a[1], b[1]), Xor16(a[2], b[2]))

\* a | c for a literal c below 2^16
OrSmall(a, c) == W(a[1], Or16(a[2], c))

\* (a + b) | 0
Add32(a, b) ==
    LET lo == a[2] + b[2]
    IN  W((a[1] + b[1] + lo \div Half) % Half, lo % Half)

\* -a
Neg32(a) == Add32(W(Half - 1 - a[1], Half - 1 - a[2]), W(0, 1))

\* a >>> k, for 0 < k < 16
Shr32(a, k) ==
    W(a[1] \div Pow2(k),
      (a[2] \div Pow2(k)) + (a[1] % Pow2(k)) * (Half \div Pow2(k)))

\* a << k, for 0 < k < 16
Shl32(a, k) ==
    W(((a[1] * Pow2(k)) % Half) + (a[2] \div (Half \div Pow2(k))),
      (a[2] * Pow2(k)) % Half)

\* The product of two 16-bit values as a 32-bit word.
Mul16(x, y) ==
    LET p0 == (x % 256) * y
        p1 == (x \div 256) * y
        lo == (p0 % Half) + (p1 % 256) * 256
    IN  W((p0 \div Half) + (p1 \div 256) + (lo \div Half), lo % Half)

\* Math.imul(a, b)
Imul32(a, b) ==
    LET ll == Mul16(a[2], b[2])
        hl == Mul16(a[1], b[2])
        lh == Mul16(a[2], b[1])
    IN  W((ll[1] + hl[2] + lh[2]) % Half, ll[2])

\* Math.floor((u / 4294967296) * m) for a 32-bit u and m below 2^15: the
\* product has at most 47 significant bits, so the double is exact.
ScaleFloor(u, m) == (u[1] * m + (u[2] * m) \div Half) \div Half

----------------------------------------------------------------------------
(* Seeded shuffle: lib/dataset/seeded-shuffle.ts (implementation "rng")    *)
(* and the helpers in import-zip.ts (implementation "prng").  A seed is    *)
(* the sequence of the char codes of the seed string.                      *)

MulberryInc == W(27947, 31221)   \* 0x6D2B79F5
FnvOffset == W(33052, 40389)     \* 2166136261
FnvPrime == W(256, 403)          \* 16777619

\* SeededRNG constructor: hash = ((hash << 5) - hash) + char, as int32, for
\* the chars from at.i on, then Math.abs (the state is taken |0 by next()).
\* at = [i, hash] is the loop's state before char i.
RECURSIVE HashRng(_, _)
HashRng(seed, at) ==
    IF at.i > Len(seed)
    THEN (IF at.hash[1] >= 32768 THEN Neg32(at.hash) ELSE at.hash)
    ELSE HashRng(seed,
                 [i |-> at.i + 1,
                  hash |-> Add32(Add32(Shl32(at.hash, 5), Neg32(at.hash)),
                                 W(0, seed[at.i]))])

\* makePrngFromSeed: h ^= charCode; h = Math.imul(h, 16777619), for the
\* chars from at.i on.
RECURSIVE HashPrng(_, _)
HashPrng(seed, at) ==
    IF at.i > Len(seed) THEN at.hash
    ELSE HashPrng(seed,
                  [i |-> at.i + 1,
                   hash |-> Imul32(Xor32(at.hash, W(0, seed[at.i])), FnvPrime)])

\* Mutant: one generator is shared by all calls and seeded only once.
NewGenerator_shared(impl, seed, old) ==
    IF old # <<0, 0>> THEN old
    ELSE IF impl = "rng" THEN HashRng(seed, [i |-> 1, hash |-> W(0, 0)])
    ELSE HashPrng(seed, [i |-> 1, hash |-> FnvOffset])

\* Mutant: only the length of the seed string reaches the generator.
NewGenerator_length(impl, seed, old) == W(0, Len(seed))

\* The generator state after `new SeededRNG(seed)` / makePrngFromSeed(seed);
\* `old` is the state the previous call left behind.
NewGenerator(impl, seed, old) ==
    IF impl = "rng" THEN HashRng(seed, [i |-> 1, hash |-> W(0, 0)])
    ELSE HashPrng(seed, [i |-> 1, hash |-> FnvOffset])

\* One step of mulberry32: the state after the step ...
NextState(st) == Add32(st, MulberryInc)

\* ... and the 32-bit value whose quotient by 2^32 the step returns.
NextValue(st) ==
    LET s1 == NextState(st)
        t1 == Imul32(Xor32(s1, Shr32(s1, 15)), OrSmall(s1, 1))
        t2 == Xor32(Add32(t1, Imul32(Xor32(t1, Shr32(t1, 7)), OrSmall(t1, 61))), t1)
    IN  Strict(s1, Strict(t1, Strict(t2, Xor32(t2, Shr32(t2, 14)))))

\* The index j drawn for position i (0-based): nextInt(0, i) /
\* Math.floor(prng() * (i + 1)).
DrawIndex(st, i) == ScaleFloor(NextValue(st), i + 1)

Swap(arr, a, b) == [arr EXCEPT ![a] = arr[b], ![b] = arr[a]]

\* The Fisher-Yates loop.  at = [out, i, st] is the loop's state before the
\* step for 0-based position i: the array, the position and the generator;
\* the loop ends at position 0.
RECURSIVE FisherYates(_)
FisherYates(at) ==
    IF at.i <= 0 THEN at
    ELSE FisherYates([out |-> Swap(at.out, at.i + 1, DrawIndex(at.st, at.i) + 1),
                      i |-> at.i - 1,
                      st |-> NextState(at.st)])

seededShuffle(impl, arr, seed, old) ==
    FisherYates([out |-> arr, i |-> Len(arr) - 1, st |-> NewGenerator(impl, seed, old)])

----------------------------------------------------------------------------
(* createSplitIndices.  Ratios are hundredths (0.7 = 70); for n below 50   *)
(* Math.floor(n * p/100) computed in doubles equals (n * p) \div 100.      *)

Min(a, b) == IF a < b THEN a ELSE b
Max(a, b) == IF a > b THEN a ELSE b

\* Array.prototype.slice(from, to) for non-negative bounds
Slice(arr, from, to) == SubSeq(arr, Min(from, Len(arr)) + 1, Min(to, Len(arr)))

\* Array.from({ length: n }, (_, i) => i)
Indices(n) == [i \in 1..n |-> i - 1]

RatioTotal(r) == r.train + r.val + r.test

\* Mutant: the share is rounded to the nearest integer.
FloorShare_round(n, p) == (n * p + 50) \div 100

\* Math.floor(n * ratio) for a ratio of p hundredths
FloorShare(n, p) == (n * p) \div 100

\* import-zip.ts: Math.floor(n * r) after `r /= total` when the ratios do not
\* sum to 1; a total of 0 makes r NaN, which slice() reads as 0.
NormalizedShare(n, p, total) ==
    IF total = 100 THEN FloorShare(n, p)
    ELSE IF total = 0 THEN 0
    ELSE (n * p) \div total

\* The sizes of train and val the implementation cuts.
SplitCounts(impl, n, r) ==
    IF impl = "rng"
    THEN [train |-> FloorShare(n, r.train), val |-> FloorShare(n, r.val)]
    ELSE [train |-> Max(NormalizedShare(n, r.train, RatioTotal(r)), 0),
          val |-> Max(NormalizedShare(n, r.val, RatioTotal(r)), 0)]

\* Mutant: the val slice runs one index into the test slice.
CutSplits_overlap(shuffled, c) ==
    [shuffled |-> shuffled,
     train |-> Slice(shuffled, 0, c.train),
     val |-> Slice(shuffled, c.train, c.train + c.val + 1),
     test |-> Slice(shuffled, c.train + c.val, Len(shuffled))]

\* The three slices of the shuffled indices.
CutSplits(shuffled, c) ==
    [shuffled |-> shuffled,
     train |-> Slice(shuffled, 0, c.train),
     val |-> Slice(shuffled, c.train, c.train + c.val),
     test |-> Slice(shuffled, c.train + c.val, Len(shuffled))]

createSplitIndices(impl, n, r, seed, old) ==
    CutSplits(seededShuffle(impl, Indices(n), seed, old).out, SplitCounts(impl, n, r))

Seed1 == <<115, 101, 101, 100, 45, 49>>   \* "seed-1"
Seed2 == <<115, 101, 101, 100, 45, 50>>   \* "seed-2"
SeedX == <<115, 101, 101, 100, 88>>       \* "seedX"
Seeds == { Seed1, Seed2, SeedX }

Ratio(t, v, e) == [train |-> t, val |-> v, test |-> e]
EXPORT_SPLIT == Ratio(70, 15, 15)
RatioTriples == { EXPORT_SPLIT, Ratio(50, 30, 20), Ratio(140, 30, 30),
                  Ratio(70, 70, 70), Ratio(0, 0, 0) }

Impls == { "rng", "prng" }

\* The caller's arguments are drawn at the start; nothing has been computed.
SplitDraw ==
    /\ generator = <<0, 0>>
    /\ call \in [impl : Impls, n : 0..MaxN, ratios : RatioTriples, seed : Seeds]
    /\ result = NoResult
    /\ ref = NoRef
    /\ calls = 0

\* One call createSplitIndices(c.n, c.ratios, c.seed) of implementation
\* c.impl; the first call is remembered in ref.
SplitCall(c) ==
    LET sh == seededShuffle(c.impl, Indices(c.n), c.seed, generator)
        res == CutSplits(sh.out, SplitCounts(c.impl, c.n, c.ratios))
    IN  /\ calls < MaxCalls
        /\ calls' = calls + 1
        /\ call' = c
        /\ result' = res
        /\ generator' = sh.st
        /\ ref' = IF ref = NoRef THEN [call |-> c, result |-> res] ELSE ref
        /\ UNCHANGED <<gateVars, loopVars, datasetVars, serviceVars, storeVars>>

\* The caller calls (again) with the arguments it holds.
CallSame == SplitCall(call)

\* The caller calls with another seed and the same other arguments.
CallOtherSeed(seed) ==
    /\ result # NoResult
    /\ seed # call.seed
    /\ SplitCall([call EXCEPT !.seed = seed])

SplitNext ==
    \/ CallSame
    \/ \E seed \in Seeds : CallOtherSeed(seed)

SplitInit ==
    GateInit /\ DETECT = DefaultDETECT /\ LoopIdle /\ SplitDraw /\ DatasetIdle /\ ServicesIdle("FaceDetectionService", NoFrame)

SpecSplit == SplitInit /\ [][SplitNext]_vars

----------------------------------------------------------------------------
(* The Dataset page (pages/Dataset) with its ClassManager, and the export  *)
(* of lib/dataset/export-zip.  A class is [id, slug], a sample             *)
(* [id, classId]; ids and seeds are sequences of char codes, a slug is a   *)
(* string.  A path dataset/<split>/<slug>/<slug>_<dddd>.jpg is the triple  *)
(* <<split, slug, i>>: padStart never truncates, so the file name is       *)
(* injective in i.                                                         *)

SEED_DEFAULT == <<104, 97, 110, 100, 109, 97, 116, 45, 50, 48, 50, 53>>  \* "handmat-2025"
Underscore == <<95>>                                                      \* "_"

\* localStorage.getItem('handmat_split_seed') || 'handmat-2025'
SplitSeeds == { SEED_DEFAULT, Seed1 }

Slugs == { "a", "b" }

\* The id handleAddClass gives the k-th class it creates ("c1", "c2", ...).
ClassId(k) == <<99, 48 + k>>

\* ClassManager.handleAddClass + Dataset.handleAddClass: a slug already in
\* use is refused; the new class gets a fresh id and goes last.
AddClass(slug) ==
    /\ archive = NoArchive
    /\ classesAdded < MaxClasses
    /\ \A i \in 1..Len(classes) : classes[i].slug # slug
    /\ classes' = Append(classes, [id |-> ClassId(classesAdded + 1), slug |-> slug])
    /\ classesAdded' = classesAdded + 1
    /\ UNCHANGED <<samples, samplesCaptured, shuffleModule, archive, capturePanel>>
    /\ UNCHANGED <<gateVars, loopVars, splitVars, serviceVars, storeVars>>

\* ClassManager.handleEditClass + onEditClass: the updates are merged into
\* the class of that id.
EditClass(i, slug) ==
    /\ archive = NoArchive
    /\ i \in 1..Len(classes)
    /\ classes[i].slug # slug
    /\ classes' = [classes EXCEPT ![i].slug = slug]
    /\ UNCHANGED <<samples, classesAdded, samplesCaptured, shuffleModule, archive, capturePanel>>
    /\ UNCHANGED <<gateVars, loopVars, splitVars, serviceVars, storeVars>>

\* ClassManager.handleDeleteClass + onDeleteClass: the class goes, and its
\* samples with it.
DeleteClass(i) ==
    /\ archive = NoArchive
    /\ i \in 1..Len(classes)
    /\ classes' = SelectSeq(classes, LAMBDA c : c.id # classes[i].id)
    /\ samples' = SelectSeq(samples, LAMBDA s : s.classId # classes[i].id)
    /\ UNCHANGED <<classesAdded, samplesCaptured, shuffleModule, archive, capturePanel>>
    /\ UNCHANGED <<gateVars, loopVars, splitVars, serviceVars, storeVars>>

\* CapturePanel capture + handleSampleCaptured: a sample of the selected
\* class is appended.
CaptureSample(i) ==
    /\ archive = NoArchive
    /\ i \in 1..Len(classes)
    /\ samplesCaptured < MaxSamples
    /\ samples' = Append(samples, [id |-> samplesCaptured + 1, classId |-> classes[i].id])
    /\ samplesCaptured' = samplesCaptured + 1
    /\ UNCHANGED <<classes, classesAdded, shuffleModule, archive, capturePanel>>
    /\ UNCHANGED <<gateVars, loopVars, splitVars, serviceVars, storeVars>>

\* Object.entries(groupSamplesByClass(samples)): the class ids in the order
\* of their first sample ...
RECURSIVE GroupKeys(_, _)
GroupKeys(smp, seen) ==
    IF smp = <<>> THEN <<>>
    ELSE IF Head(smp).classId \in seen THEN GroupKeys(Tail(smp), seen)
    ELSE <<Head(smp).classId>> \o GroupKeys(Tail(smp), seen \cup {Head(smp).classId})

\* ... and the samples of one class id, in capture order.
GroupOf(smp, classId) == SelectSeq(smp, LAMBDA s : s.classId = classId)

\* classes.find(c => c.id === classId): the position of the first class of
\* that id, 0 if there is none.
FindClass(cls, classId) ==
    IF \E i \in 1..Len(cls) : cls[i].id = classId
    THEN CHOOSE i \in 1..Len(cls) :
             cls[i].id = classId /\ \A j \in 1..(i - 1) : cls[j].id # classId
    ELSE 0

\* `${splitSeed}_${classId}`
ClassSeed(splitSeed, classId) == splitSeed \o Underscore \o classId

\* addSamplesToZip: one write and one metadata row per sample of the list,
\* numbered from 0 inside its split folder.
SplitWrites(split, signClass, classSamples, indices, splitSeed) ==
    [k \in 1..Len(indices) |->
        [file_path |-> <<split, signClass.slug, k - 1>>,
         sample |-> classSamples[indices[k] + 1].id,
         class_id |-> classSamples[indices[k] + 1].classId,
         split_seed |-> splitSeed]]

\* The body of exportDataset's loop for one class id: nothing for an id
\* that has no class, else train, val and test in that order.
ClassWrites(impl, cls, smp, classId, splitSeed) ==
    LET at == FindClass(cls, classId)
        classSamples == GroupOf(smp, classId)
        splitIndices == createSplitIndices(impl, Len(classSamples), EXPORT_SPLIT,
                                           ClassSeed(splitSeed, classId), <<0, 0>>)
    IN  IF at = 0 THEN <<>>
        ELSE SplitWrites("train", cls[at], classSamples, splitIndices.train, splitSeed)
             \o SplitWrites("val", cls[at], classSamples, splitIndices.val, splitSeed)
             \o SplitWrites("test", cls[at], classSamples, splitIndices.test, splitSeed)

RECURSIVE AllWrites(_, _, _, _, _)
AllWrites(impl, cls, smp, keys, splitSeed) ==
    IF keys = <<>> THEN <<>>
    ELSE ClassWrites(impl, cls, smp, Head(keys), splitSeed)
         \o AllWrites(impl, cls, smp, Tail(keys), splitSeed)

\* folder.file(name, data) adds the entry or replaces the entry of that
\* name: the archive holds, for every path written, the last sample written.
ZipFiles(writes) ==
    LET paths == { writes[k].file_path : k \in 1..Len(writes) }
        last(p) == CHOOSE k \in 1..Len(writes) :
                       /\ writes[k].file_path = p
                       /\ \A j \in (k + 1)..Len(writes) : writes[j].file_path # p
    IN  [p \in paths |-> writes[last(p)].sample]

exportDataset(impl, cls, smp, splitSeed) ==
    LET writes == AllWrites(impl, cls, smp, GroupKeys(smp, {}), splitSeed)
    IN  [written |-> TRUE, files |-> ZipFiles(writes), metadata |-> writes,
         splitSeed |-> splitSeed]

\* Dataset.handleExport behind the Export button, which is disabled while
\* there is no sample.
Export(splitSeed) ==
    /\ archive = NoArchive
    /\ classes # <<>>
    /\ samples # <<>>
    /\ archive' = exportDataset(shuffleModule, classes, samples, splitSeed)
    /\ UNCHANGED <<classes, samples, classesAdded, samplesCaptured, shuffleModule, capturePanel>>
    /\ UNCHANGED <<gateVars, loopVars, splitVars, serviceVars, storeVars>>

DatasetNext ==
    \/ \E slug \in Slugs : AddClass(slug)
    \/ \E i \in 1..MaxClasses, slug \in Slugs : EditClass(i, slug)
    \/ \E i \in 1..MaxClasses : DeleteClass(i)
    \/ \E i \in 1..MaxClasses : CaptureSample(i)
    \/ \E splitSeed \in SplitSeeds : Export(splitSeed)

\* The build binds export-zip's createSplitIndices to one of the two
\* implementations of the repository.
DatasetInit ==
    /\ classes = <<>>
    /\ samples = <<>>
    /\ classesAdded = 0
    /\ samplesCaptured = 0
    /\ shuffleModule \in Impls
    /\ archive = NoArchive
    /\ capturePanel = [selectedClass |-> TRUE, isCapturing |-> FALSE,
                       isBurstCapturing |-> FALSE, burstTimeoutRef |-> "null",
                       spaceDown |-> FALSE, held |-> FALSE, presses |-> 0,
                       singles |-> 0, bursts |-> 0, singles0 |-> 0, bursts0 |-> 0]

ExportInit ==
    GateInit /\ DETECT = DefaultDETECT /\ LoopIdle /\ SplitIdle /\ DatasetInit /\ ServicesIdle("FaceDetectionService", NoFrame)

SpecExport == ExportInit /\ [][DatasetNext]_vars

----------------------------------------------------------------------------
(* initialize() of the detector services: FaceDetectionService             *)
(* (services/faceDetection), HandDetectionService on MediaPipe             *)
(* (services/safeHandDetection) and the mock HandDetectionService.  A call *)
(* is [pc, result, during, started]: where it stands, what it returned,    *)
(* the earliest initializing call that was in flight when it was made (0   *)
(* if none) and whether it started an initialization.                      *)

\* initialize() up to its first await or return. The face service and the
\* mock poll isInitializing every 100 ms while another call initializes;
\* HandDetectionService returns false at once.
Initialize ==
    LET initializing == { c \in 1..Len(initCalls) : initCalls[c].pc = "loading" }
        earliestInFlight ==
            IF initializing = {} THEN 0
            ELSE CHOOSE c \in initializing : \A o \in initializing : c <= o
        returned(value) ==
            [pc |-> "done", result |-> value, during |-> earliestInFlight, started |-> FALSE]
        pending(pc, started) ==
            [pc |-> pc, result |-> FALSE, during |-> earliestInFlight, started |-> started]
    IN  /\ Len(initCalls) < MaxInitCalls
        /\ IF isInitialized
           THEN /\ initCalls' = Append(initCalls, returned(TRUE))
                /\ UNCHANGED isInitializing
           ELSE IF isInitializing
           THEN /\ initCalls' = Append(initCalls,
                                       IF service = "HandDetectionService"
                                       THEN returned(FALSE)
                                       ELSE pending("waiting", FALSE))
                /\ UNCHANGED isInitializing
           ELSE /\ isInitializing' = TRUE
                /\ initCalls' = Append(initCalls, pending("loading", TRUE))
        /\ UNCHANGED <<service, isInitialized, orphanLoads, frame, quality, integrated>>
        /\ UNCHANGED <<gateVars, loopVars, splitVars, datasetVars, storeVars>>

\* The load the call awaits settles: it succeeds (the model or the
\* landmarker is there) or fails (for the face service the MediaPipe
\* fallback throws as well); the mock's load is a timer and cannot fail.
LoadSettles(c, ok) ==
    /\ c \in 1..Len(initCalls)
    /\ initCalls[c].pc = "loading"
    /\ ok \/ service # "MockHandDetectionService"
    /\ isInitialized' = ok
    /\ isInitializing' = FALSE
    /\ initCalls' = [initCalls EXCEPT ![c].pc = "done", ![c].result = ok]
    /\ UNCHANGED <<service, orphanLoads, frame, quality, integrated>>
    /\ UNCHANGED <<gateVars, loopVars, splitVars, datasetVars, storeVars>>

\* HandDetectionService: the 30 s timer wins the race; the call returns
\* false and initializeWithTimeout goes on without it.
LoadTimesOut(c) ==
    /\ c \in 1..Len(initCalls)
    /\ initCalls[c].pc = "loading"
    /\ service = "HandDetectionService"
    /\ isInitialized' = FALSE
    /\ isInitializing' = FALSE
    /\ initCalls' = [initCalls EXCEPT ![c].pc = "done", ![c].result = FALSE]
    /\ orphanLoads' = orphanLoads + 1
    /\ UNCHANGED <<service, frame, quality, integrated>>
    /\ UNCHANGED <<gateVars, loopVars, splitVars, datasetVars, storeVars>>

\* An initializeWithTimeout that lost the race finishes: it sets the fields
\* as if its call were still there.
OrphanFinishes(ok) ==
    /\ orphanLoads > 0
    /\ orphanLoads' = orphanLoads - 1
    /\ isInitialized' = ok
    /\ isInitializing' = FALSE
    /\ UNCHANGED <<service, initCalls, frame, quality, integrated>>
    /\ UNCHANGED <<gateVars, loopVars, splitVars, datasetVars, storeVars>>

\* The 100 ms timer of a waiting call fires and isInitializing is false:
\* the call returns isInitialized.  (While it is true the call waits on.)
WaiterWakes(c) ==
    /\ c \in 1..Len(initCalls)
    /\ initCalls[c].pc = "waiting"
    /\ ~isInitializing
    /\ initCalls' = [initCalls EXCEPT ![c].pc = "done", ![c].result = isInitialized]
    /\ UNCHANGED <<service, isInitialized, isInitializing, orphanLoads, frame, quality, integrated>>
    /\ UNCHANGED <<gateVars, loopVars, splitVars, datasetVars, storeVars>>

InitInit ==
    /\ GateInit /\ DETECT = DefaultDETECT /\ LoopIdle /\ SplitIdle /\ DatasetIdle
    /\ \E svc \in { "FaceDetectionService", "HandDetectionService",
                     "MockHandDetectionService" } : ServicesIdle(svc, NoFrame)

SpecInit ==
    InitInit /\
    [][ \/ Initialize
        \/ \E c \in 1..MaxInitCalls, ok \in BOOLEAN : LoadSettles(c, ok)
        \/ \E c \in 1..MaxInitCalls : LoadTimesOut(c)
        \/ \E ok \in BOOLEAN : OrphanFinishes(ok)
        \/ \E c \in 1..MaxInitCalls : WaiterWakes(c) ]_vars

----------------------------------------------------------------------------
(* The quality functions (lib/quality): computeBrightness, computeBlurVar  *)
(* and computeMotionScore on ImageData-shaped objects [width, height,      *)
(* data].  A JavaScript number is [nan, num, den]: NaN, or the rational    *)
(* num/den.  Luma values are kept in thousandths.                          *)

NaN == [nan |-> TRUE, num |-> 0, den |-> 1]
Num(n, d) == [nan |-> FALSE, num |-> n, den |-> d]

\* a / b for b >= 0: the code divides by counts only; 0/0 is NaN and x/0
\* is an infinity (den = 0).
DivNum(a, b) ==
    IF a.nan \/ b.nan THEN NaN
    ELSE IF b.num = 0
         THEN (IF a.num = 0 THEN NaN ELSE [nan |-> FALSE, num |-> 1, den |-> 0])
    ELSE Num(a.num * b.den, a.den * b.num)

\* data[i] of a Uint8ClampedArray (0-based): undefined past the end.
\* 0.299 * data[i] + 0.587 * data[i + 1] + 0.114 * data[i + 2], for i inside
\* the buffer: NaN as soon as one of the three reads is undefined.
Luma(data, i) ==
    IF i + 2 < Len(data)
    THEN Num(299 * data[i + 1] + 587 * data[i + 2] + 114 * data[i + 3], 1000)
    ELSE NaN

\* for (let i = 0; i < data.length; i += 4) sum += luma(i): the sum from
\* position i on.
RECURSIVE LumaSum(_, _)
LumaSum(data, i) ==
    IF i >= Len(data) THEN Num(0, 1000)
    ELSE LET rest == LumaSum(data, i + 4)
             here == Luma(data, i)
         IN  IF here.nan \/ rest.nan THEN NaN ELSE Num(here.num + rest.num, 1000)

computeBrightness(img) ==
    IF Len(img.data) = 0 THEN Num(0, 1)
    ELSE DivNum(LumaSum(img.data, 0), Num(Len(img.data), 4))

\* sum and sumSq of the Laplacian -4 * c + n + s + w + e over a set of
\* positions ([nan, sum, sumSq], thousandths and their squares). The
\* Float32Array gray is zero where the first loop did not write.
RECURSIVE LaplacianSums(_, _)
LaplacianSums(img, at) ==
    IF at = {} THEN [nan |-> FALSE, sum |-> 0, sumSq |-> 0]
    ELSE LET gray(i) ==
                 IF 4 * i < Len(img.data) THEN Luma(img.data, 4 * i) ELSE Num(0, 1000)
             idx == CHOOSE i \in at : TRUE
             rest == LaplacianSums(img, at \ {idx})
             c == gray(idx)
             n == gray(idx - img.width)
             s == gray(idx + img.width)
             w == gray(idx - 1)
             e == gray(idx + 1)
             lap == n.num + s.num + w.num + e.num - 4 * c.num
         IN  IF c.nan \/ n.nan \/ s.nan \/ w.nan \/ e.nan \/ rest.nan
             THEN [nan |-> TRUE, sum |-> 0, sumSq |-> 0]
             ELSE [nan |-> FALSE, sum |-> rest.sum + lap,
                   sumSq |-> rest.sumSq + lap * lap]

computeBlurVar(img) ==
    LET len == img.width * img.height
        n == (img.width - 2) * (img.height - 2)
        \* the positions the two nested loops visit
        interior ==
            { y * img.width + x : y \in 1..(img.height - 2), x \in 1..(img.width - 2) }
        sums == LaplacianSums(img, interior)
        \* sumSq / n - mean * mean
        variance == IF sums.nan THEN NaN
                    ELSE Num(n * sums.sumSq - sums.sum * sums.sum, n * n * 1000000)
    IN  IF len = 0 THEN Num(0, 1)
        ELSE IF n <= 0 THEN Num(0, 1)
        ELSE IF ~variance.nan /\ variance.num > 0 THEN variance ELSE Num(0, 1)

\* acc += Math.abs(ag - bg) from position i on.
RECURSIVE MotionAcc(_, _, _)
MotionAcc(a, b, i) ==
    IF i >= Len(a) THEN Num(0, 1000)
    ELSE LET rest == MotionAcc(a, b, i + 4)
             ag == Luma(a, i)
             bg == Luma(b, i)
         IN  IF ag.nan \/ bg.nan \/ rest.nan THEN NaN
             ELSE Num(Abs(ag.num - bg.num) + rest.num, 1000)

\* Math.min(1, acc / (pixels * 255)): NaN if the quotient is NaN.
computeMotionScore(prev, curr) ==
    IF prev.width # curr.width \/ prev.height # curr.height
          \/ Len(prev.data) # Len(curr.data)
    THEN Num(0, 1)
    ELSE LET acc == MotionAcc(prev.data, curr.data, 0)
             v == DivNum(acc, Num(Len(prev.data) * 255, 4))
         IN  IF v.nan THEN NaN
             ELSE IF v.den = 0 \/ v.num > v.den THEN Num(1, 1) ELSE v

\* The frames of the model: widths and heights from none to 4 x 3, buffers
\* of the right length, too short, too long or cut inside a pixel, filled
\* dark (0), lit (4) or in stripes of the two; alpha is 255.
Frames ==
    LET byte(pattern, i) ==
            IF i % 4 = 3 THEN 255
            ELSE IF pattern = "dark" THEN 0
            ELSE IF pattern = "lit" THEN 4
            ELSE IF (i \div 4) % 2 = 0 THEN 4 ELSE 0
    IN  { [width |-> w, height |-> h, data |-> [i \in 1..len |-> byte(p, i - 1)]] :
            w \in { 0, 1, 3, 4 }, h \in { 0, 1, 3 },
            len \in { 0, 2, 4, 6, 12, 16, 24, 36, 48 },
            p \in { "dark", "lit", "stripes" } }

\* The previous frame a motion score is taken against: the same frame, the
\* frame with lit and dark exchanged, a frame one pixel wider, a frame
\* without data.
Previous(img, kind) ==
    CASE kind = "same" -> img
      [] kind = "inverted" ->
             [img EXCEPT !.data = [i \in 1..Len(img.data) |->
                                      IF i % 4 = 0 THEN 255 ELSE 4 - img.data[i]]]
      [] kind = "wider" -> [img EXCEPT !.width = @ + 1]
      [] OTHER -> [img EXCEPT !.data = <<>>]

Brightness ==
    /\ quality.fn = "none"
    /\ quality' = [fn |-> "computeBrightness", prev |-> NoFrame,
                   value |-> computeBrightness(frame)]
    /\ UNCHANGED <<frame, service, isInitialized, isInitializing, initCalls, orphanLoads,
                   integrated>>
    /\ UNCHANGED <<gateVars, loopVars, splitVars, datasetVars, storeVars>>

BlurVar ==
    /\ quality.fn = "none"
    /\ quality' = [fn |-> "computeBlurVar", prev |-> NoFrame,
                   value |-> computeBlurVar(frame)]
    /\ UNCHANGED <<frame, service, isInitialized, isInitializing, initCalls, orphanLoads,
                   integrated>>
    /\ UNCHANGED <<gateVars, loopVars, splitVars, datasetVars, storeVars>>

MotionScore(kind) ==
    /\ quality.fn = "none"
    /\ quality' = [fn |-> "computeMotionScore", prev |-> Previous(frame, kind),
                   value |-> computeMotionScore(Previous(frame, kind), frame)]
    /\ UNCHANGED <<frame, service, isInitialized, isInitializing, initCalls, orphanLoads,
                   integrated>>
    /\ UNCHANGED <<gateVars, loopVars, splitVars, datasetVars, storeVars>>

QualityInit ==
    /\ GateInit /\ DETECT = DefaultDETECT /\ LoopIdle /\ SplitIdle /\ DatasetIdle
    /\ \E img \in Frames : ServicesIdle("FaceDetectionService", img)

SpecQuality ==
    QualityInit /\
    [][ \/ Brightness
        \/ BlurVar
        \/ \E kind \in { "same", "inverted", "wider", "empty" } : MotionScore(kind) ]_vars

----------------------------------------------------------------------------
(* The capture view (WebcamCapture) with its manual capture and its        *)
(* countdown display around the capture loop.                              *)

getCountdownProgress_unclamped(t) ==
    IF detection.state # "STABLE" \/ detection.countdownStartTime = 0
    THEN Num(0, 1)
    ELSE DivNum(Num(t - detection.countdownStartTime, 1),
                Num(DETECT.AUTO_CAPTURE_DELAY_MS, 1))

\* getCountdownProgress() with performance.now() = t.
getCountdownProgress(t) ==
    IF detection.state # "STABLE" \/ detection.countdownStartTime = 0
    THEN Num(0, 1)
    ELSE LET elapsed == Num(t - detection.countdownStartTime, 1)
             v == DivNum(elapsed, Num(DETECT.AUTO_CAPTURE_DELAY_MS, 1))
         IN  \* Math.min(v, 1)
             IF v.nan THEN NaN
             ELSE IF v.den = 0 THEN (IF v.num > 0 THEN Num(1, 1) ELSE v)
             ELSE IF v.num > v.den THEN Num(1, 1) ELSE v

\* handleManualCapture behind the capture button and the Space key:
\* handleAutoCapture() unless a capture is going on.
ManualCapture ==
    /\ microtasks = <<>>
    /\ mounted
    /\ ~isCapturing
    /\ manualCaptures < MaxManualCaptures
    /\ manualCaptures' = manualCaptures + 1
    /\ pendingOnCapture' = pendingOnCapture + 1
    /\ UNCHANGED <<gateVars, isPaused, mounted, isCapturing, lastFrameTime, awaiting,
                   microtasks, autoCaptures, countdownProgress>>
    /\ UNCHANGED <<splitVars, datasetVars, serviceVars, storeVars>>

\* A render of the component: it reads getCountdownProgress().
Render ==
    /\ microtasks = <<>>
    /\ mounted
    /\ countdownProgress' = getCountdownProgress(now)
    /\ UNCHANGED <<gateVars, isPaused, mounted, isCapturing, pendingOnCapture,
                   lastFrameTime, awaiting, microtasks, autoCaptures, manualCaptures>>
    /\ UNCHANGED <<splitVars, datasetVars, serviceVars, storeVars>>

\* The mounted view: the capture loop, the pause button, the capture button
\* and the renders.
PanelInit == LoopInit /\ DETECT.REQUIRE_FACE_FOR_CAPTURE

SpecPanel ==
    PanelInit /\ [][ \/ \E hand \in LoopHandInputs : Tick(hand)
                    \/ \E c \in awaiting, face \in LoopFaceInputs : DetectorResolves(c, face)
                    \/ DetectCont
                    \/ RunCont
                    \/ OnCapture
                    \/ RecognitionDone
                    \/ TogglePause
                    \/ ManualCapture
                    \/ Render ]_vars

----------------------------------------------------------------------------
(* integratedDetectionService.initialize() over the two singletons         *)
(* faceDetectionService and handDetectionService (the mock).  integrated   *)
(* holds the service's isInitialized, whether the face and the hand        *)
(* detector are initialized, and the calls in call order: a call is        *)
(* awaiting Promise.allSettled or has returned its report.  The service is *)
(* built with its default config, both detectors enabled.                  *)

\* initialize() up to its return or its await.
IntegratedInitialize ==
    /\ Len(integrated.calls) < MaxIntegratedCalls
    /\ integrated' =
          [integrated EXCEPT !.calls =
              Append(@, IF integrated.isInitialized
                        THEN [pc |-> "returned", face |-> TRUE, hand |-> TRUE]
                        ELSE [pc |-> "awaiting", face |-> FALSE, hand |-> FALSE])]
    /\ UNCHANGED <<service, isInitialized, isInitializing, initCalls, orphanLoads,
                   frame, quality>>
    /\ UNCHANGED <<gateVars, loopVars, splitVars, datasetVars, storeVars>>

\* Both promises of call c have settled.  faceDetectionService.initialize()
\* gives true when the detector is initialized or its models load now
\* (faceLoads) and false when both of its loaders fail; the mock
\* handDetectionService's initialize() has nothing that fails.
IntegratedSettles(c, faceLoads) ==
    LET faceInitialized == integrated.face \/ faceLoads
        handInitialized == TRUE
    IN  /\ c \in 1..Len(integrated.calls)
        /\ integrated.calls[c].pc = "awaiting"
        /\ integrated' =
              [integrated EXCEPT
                  !.face = faceInitialized,
                  !.hand = handInitialized,
                  !.isInitialized = faceInitialized \/ handInitialized,
                  !.calls[c] = [pc |-> "returned", face |-> faceInitialized,
                                hand |-> handInitialized]]
        /\ UNCHANGED <<service, isInitialized, isInitializing, initCalls, orphanLoads,
                       frame, quality>>
        /\ UNCHANGED <<gateVars, loopVars, splitVars, datasetVars, storeVars>>

SpecIntegrated ==
    SettingsInit /\
    [][ \/ IntegratedInitialize
        \/ \E c \in 1..MaxIntegratedCalls, faceLoads \in BOOLEAN :
              IntegratedSettles(c, faceLoads) ]_vars

----------------------------------------------------------------------------
(* The Space key of the dataset CapturePanel.  capturePanel holds the      *)
(* component's captureState flags and burstTimeoutRef, which is "null" or  *)
(* names its timer by the timer's state: "pending", "fired" or "cleared".  *)
(* Observers: spaceDown and held (the key is down, and has been for 500 ms *)
(* or more), presses, the single and burst captures started so far         *)
(* (singles, bursts) and their values at the last keydown (singles0,       *)
(* bursts0).  A render that changes handleSingleCapture, handleBurstCapture*)
(* or captureState.isBurstCapturing re-runs the keyboard effect, whose     *)
(* cleanup clears the timer of burstTimeoutRef and leaves the ref as it is.*)

\* handleKeyPress(event) for event.code = 'Space', event.repeat = false.
handleKeyPress(type) ==
    LET p == capturePanel
    IN  /\ \/ /\ type = "keydown"
              /\ ~p.spaceDown
              /\ p.presses < MaxPresses
              /\ capturePanel' =
                    [p EXCEPT !.spaceDown = TRUE, !.held = FALSE,
                              !.presses = @ + 1,
                              !.singles0 = p.singles, !.bursts0 = p.bursts,
                              !.burstTimeoutRef =
                                  IF ~p.isBurstCapturing /\ p.selectedClass
                                  THEN "pending" ELSE @]
           \/ /\ type = "keyup"
              /\ p.spaceDown
              /\ capturePanel' =
                    IF p.burstTimeoutRef # "null"
                    THEN \* clearTimeout, then handleSingleCapture()
                         IF ~p.selectedClass \/ p.isCapturing
                         THEN [p EXCEPT !.spaceDown = FALSE,
                                        !.burstTimeoutRef = "null"]
                         ELSE [p EXCEPT !.spaceDown = FALSE,
                                        !.burstTimeoutRef = "null",
                                        !.isCapturing = TRUE,
                                        !.singles = @ + 1]
                    ELSE [p EXCEPT !.spaceDown = FALSE]
        /\ UNCHANGED <<classes, samples, classesAdded, samplesCaptured,
                       shuffleModule, archive>>
        /\ UNCHANGED <<gateVars, loopVars, splitVars, serviceVars, storeVars>>

\* The key has been down for 500 ms: the timeout set at keydown is due and,
\* unless it was cleared, calls handleBurstCapture().
HoldElapsed ==
    LET p == capturePanel
    IN  /\ p.spaceDown
        /\ ~p.held
        /\ capturePanel' =
              IF p.burstTimeoutRef # "pending"
              THEN [p EXCEPT !.held = TRUE]
              ELSE IF ~p.selectedClass \/ p.isBurstCapturing
              THEN [p EXCEPT !.held = TRUE, !.burstTimeoutRef = "fired"]
              ELSE [p EXCEPT !.held = TRUE, !.burstTimeoutRef = "fired",
                             !.isBurstCapturing = TRUE, !.bursts = @ + 1]
        /\ UNCHANGED <<classes, samples, classesAdded, samplesCaptured,
                       shuffleModule, archive>>
        /\ UNCHANGED <<gateVars, loopVars, splitVars, serviceVars, storeVars>>

\* The quality interval's setQualityMetrics renders the panel: createSample
\* and with it both capture handlers are new functions, so the keyboard
\* effect runs its cleanup.
QualityTick ==
    /\ capturePanel.burstTimeoutRef = "pending"
    /\ capturePanel' = [capturePanel EXCEPT !.burstTimeoutRef = "cleared"]
    /\ UNCHANGED <<classes, samples, classesAdded, samplesCaptured,
                   shuffleModule, archive>>
    /\ UNCHANGED <<gateVars, loopVars, splitVars, serviceVars, storeVars>>

\* The end of handleSingleCapture (its finally) or of handleBurstCapture:
\* the flag goes back to false, and the render runs the effect's cleanup.
CaptureSettles(kind) ==
    LET p == capturePanel
        cleaned == IF p.burstTimeoutRef = "pending" THEN "cleared"
                   ELSE p.burstTimeoutRef
    IN  /\ \/ /\ kind = "single"
              /\ p.isCapturing
              /\ capturePanel' = [p EXCEPT !.isCapturing = FALSE,
                                           !.burstTimeoutRef = cleaned]
           \/ /\ kind = "burst"
              /\ p.isBurstCapturing
              /\ capturePanel' = [p EXCEPT !.isBurstCapturing = FALSE,
                                           !.burstTimeoutRef = cleaned]
        /\ UNCHANGED <<classes, samples, classesAdded, samplesCaptured,
                       shuffleModule, archive>>
        /\ UNCHANGED <<gateVars, loopVars, splitVars, serviceVars, storeVars>>

SpecKeys ==
    SettingsInit /\
    [][ \/ \E type \in { "keydown", "keyup" } : handleKeyPress(type)
        \/ HoldElapsed
        \/ QualityTick
        \/ \E kind \in { "single", "burst" } : CaptureSettles(kind) ]_vars

----------------------------------------------------------------------------
(* The recognition feed store (shared/store/feed-store).  An item is       *)
(* [id, size, pinned, corrected]: ids are handed out in the order of the   *)
(* addItem calls, so a larger id is a newer item (a later ts); size is the *)
(* size of the item's blob in MB, 0 for an item without blob.  FEED's      *)
(* MAX_ITEMS is 200; the store compares lengths with it and nothing else,  *)
(* and the model runs the store with a limit of a few items.               *)

MAX_ITEMS == 3

addItem_noTrim(size) ==
    /\ feedAdds < MaxAdds
    /\ feedAdds' = feedAdds + 1
    /\ items' = <<[id |-> feedAdds + 1, size |-> size, pinned |-> FALSE,
                   corrected |-> FALSE]>> \o items
    /\ memoryUsage' = memoryUsage + size
    /\ lastOp' = [op |-> "addItem", id |-> feedAdds + 1, removed |-> {}]
    /\ UNCHANGED <<gateVars, loopVars, splitVars, datasetVars, serviceVars>>

\* addItem(itemData), as Index.handleCapture calls it: a new id, no pinned
\* flag.
addItem(size) ==
    LET item == [id |-> feedAdds + 1, size |-> size, pinned |-> FALSE,
                 corrected |-> FALSE]
        newItems == <<item>> \o items
        newMemoryUsage == memoryUsage + size
        itemsToRemove == SubSeq(newItems, MAX_ITEMS + 1, Len(newItems))
        removedMB[k \in 0..Len(itemsToRemove)] ==
            IF k = 0 THEN 0 ELSE removedMB[k - 1] + itemsToRemove[k].size
    IN  /\ feedAdds < MaxAdds
        /\ feedAdds' = feedAdds + 1
        /\ IF Len(newItems) > MAX_ITEMS
           THEN /\ items' = SubSeq(newItems, 1, MAX_ITEMS)
                /\ memoryUsage' = newMemoryUsage - removedMB[Len(itemsToRemove)]
           ELSE /\ items' = newItems
                /\ memoryUsage' = newMemoryUsage
        /\ lastOp' = [op |-> "addItem", id |-> item.id,
                      removed |-> { items[i].id : i \in 1..Len(items) }
                                \ { items'[i].id : i \in 1..Len(items') }]
        /\ UNCHANGED <<gateVars, loopVars, splitVars, datasetVars, serviceVars>>

removeItem_keepsMemory(id) ==
    /\ items' = SelectSeq(items, LAMBDA item : item.id # id)
    /\ lastOp' = [op |-> "removeItem", id |-> id,
                  removed |-> { items[i].id : i \in 1..Len(items) }
                            \ { items'[i].id : i \in 1..Len(items') }]
    /\ UNCHANGED <<memoryUsage, feedAdds>>
    /\ UNCHANGED <<gateVars, loopVars, splitVars, datasetVars, serviceVars>>

\* removeItem(id)
removeItem(id) ==
    LET found == { i \in 1..Len(items) : items[i].id = id }
    IN  /\ IF found = {}
           THEN UNCHANGED <<items, memoryUsage>>
           ELSE LET item == items[CHOOSE i \in found : \A j \in found : i <= j]
                IN  /\ items' = SelectSeq(items, LAMBDA it : it.id # id)
                    /\ memoryUsage' = Max(0, memoryUsage - item.size)
        /\ lastOp' = [op |-> "removeItem", id |-> id,
                      removed |-> { items[i].id : i \in 1..Len(items) }
                                \ { items'[i].id : i \in 1..Len(items') }]
        /\ UNCHANGED feedAdds
        /\ UNCHANGED <<gateVars, loopVars, splitVars, datasetVars, serviceVars>>

\* updateItemLabel(id, newLabel)
updateItemLabel(id) ==
    /\ items' = [i \in 1..Len(items) |->
                    IF items[i].id = id THEN [items[i] EXCEPT !.corrected = TRUE]
                    ELSE items[i]]
    /\ lastOp' = [op |-> "updateItemLabel", id |-> id, removed |-> {}]
    /\ UNCHANGED <<memoryUsage, feedAdds>>
    /\ UNCHANGED <<gateVars, loopVars, splitVars, datasetVars, serviceVars>>

\* togglePin(id)
togglePin(id) ==
    /\ items' = [i \in 1..Len(items) |->
                    IF items[i].id = id THEN [items[i] EXCEPT !.pinned = ~@]
                    ELSE items[i]]
    /\ lastOp' = [op |-> "togglePin", id |-> id, removed |-> {}]
    /\ UNCHANGED <<memoryUsage, feedAdds>>
    /\ UNCHANGED <<gateVars, loopVars, splitVars, datasetVars, serviceVars>>

\* clearFeed()
clearFeed ==
    /\ items' = <<>>
    /\ memoryUsage' = 0
    /\ lastOp' = [op |-> "clearFeed", id |-> 0,
                  removed |-> { items[i].id : i \in 1..Len(items) }
                            \ { items'[i].id : i \in 1..Len(items') }]
    /\ UNCHANGED feedAdds
    /\ UNCHANGED <<gateVars, loopVars, splitVars, datasetVars, serviceVars>>

\* trimOldItems()
trimOldItems ==
    LET unpinnedItems == SelectSeq(items, LAMBDA item : ~item.pinned)
        pinnedItems == SelectSeq(items, LAMBDA item : item.pinned)
        itemsToKeep == Max(0, MAX_ITEMS - Len(pinnedItems))
        keptUnpinned == SubSeq(unpinnedItems, 1, Min(itemsToKeep, Len(unpinnedItems)))
        itemsToRemove == SubSeq(unpinnedItems, itemsToKeep + 1, Len(unpinnedItems))
        kept == keptUnpinned \o pinnedItems
        \* sort by ts, newest first
        newItems == CHOOSE seq \in [1..Len(kept) -> { kept[i] : i \in 1..Len(kept) }] :
                        \A i, j \in 1..Len(kept) : i < j => seq[i].id > seq[j].id
        removedMB[k \in 0..Len(itemsToRemove)] ==
            IF k = 0 THEN 0 ELSE removedMB[k - 1] + itemsToRemove[k].size
    IN  /\ IF Len(unpinnedItems) <= MAX_ITEMS
           THEN UNCHANGED <<items, memoryUsage>>
           ELSE /\ items' = newItems
                /\ memoryUsage' = Max(0, memoryUsage - removedMB[Len(itemsToRemove)])
        /\ lastOp' = [op |-> "trimOldItems", id |-> 0,
                      removed |-> { items[i].id : i \in 1..Len(items) }
                                \ { items'[i].id : i \in 1..Len(items') }]
        /\ UNCHANGED feedAdds
        /\ UNCHANGED <<gateVars, loopVars, splitVars, datasetVars, serviceVars>>

\* The blobs are of 1 or 2 MB, or missing (0).
SpecFeed ==
    SettingsInit /\ [][ \/ \E size \in 0..2 : addItem(size)
                        \/ \E id \in 1..MaxAdds : removeItem(id)
                        \/ \E id \in 1..MaxAdds : updateItemLabel(id)
                        \/ \E id \in 1..MaxAdds : togglePin(id)
                        \/ clearFeed
                        \/ trimOldItems ]_vars

----------------------------------------------------------------------------
(* Claims about the gate (specification Spec) *)

\* C1: if the gate enters CAPTURE at timestamp t, it does not enter CAPTURE
\* again at any timestamp earlier than t + cooldownMs, whatever the updates
\* report: two consecutive CAPTURE entries are at least COOLDOWN_MS apart.
C1_CooldownBetweenCaptures ==
    captureCount >= 2 =>
        detection.lastCaptureTime - prevCaptureTime >= DETECT.COOLDOWN_MS

\* A second CAPTURE entry inside one run of valid, stable updates.
C1_Witness ==
    /\ captureCount = 2
    /\ detection.state = "CAPTURE"
    /\ runStart # 0
    /\ runCaptures = 2

\* Number of poll intervals needed to cover ms milliseconds.
PollsFor(ms) == (ms + POLL_MS - 1) \div POLL_MS

\* Duration, from the first update of a steady run, after which the gate has
\* locked, armed stableStartTime, waited the stability window, armed
\* countdownStartTime and waited the countdown.
SteadyBound(cfg) ==
    (2 + PollsFor(cfg.STABILITY_MS) + PollsFor(cfg.AUTO_CAPTURE_DELAY_MS)) * POLL_MS

\* C2 as stated: a steady run from SEARCHING that has lasted
\* stabilityMs + autoCaptureDelayMs has entered CAPTURE exactly once.
C2_Original ==
    (runStart # 0 /\ now - runStart = DETECT.STABILITY_MS + DETECT.AUTO_CAPTURE_DELAY_MS)
        => runCaptures = 1

\* C2 (amended): a steady run from SEARCHING that has lasted stabilityMs +
\* autoCaptureDelayMs + 2*pollMs (the two windows rounded up to whole poll
\* intervals) has entered CAPTURE exactly once, and the update that follows
\* the CAPTURE state puts the gate in COOLDOWN.
C2_SteadyRunCaptures ==
    /\ [](  (runStart # 0 /\ now - runStart = SteadyBound(DETECT)) => runCaptures = 1 )
    /\ [][ detection.state = "CAPTURE" => detection'.state = "COOLDOWN" ]_vars

\* The default deployment at the end of such a run: the gate has just
\* entered CAPTURE.
C2_Witness ==
    /\ DETECT = DefaultDETECT
    /\ runStart # 0
    /\ now - runStart = SteadyBound(DETECT)
    /\ detection.state = "CAPTURE"
    /\ runCaptures = 1

\* C12: with requireFaceForCapture true, as long as no update has reported
\* a valid face the gate is not in LOCK_BOTH, STABLE or CAPTURE; for either
\* value of the flag, as long as no update has reported a valid hand the
\* gate is not in STABLE or CAPTURE; and no update raises an error because
\* a detection is absent.
C12_NoLockWithoutDetections ==
    /\ [](  (DETECT.REQUIRE_FACE_FOR_CAPTURE /\ ~validFaceSeen)
              => detection.state \notin {"LOCK_BOTH", "STABLE", "CAPTURE"} )
    /\ [](  ~validHandSeen => detection.state \notin {"STABLE", "CAPTURE"} )
    /\ [][ ~UpdateRaises(detection, lastDetection, detection'.hand, detection'.face,
                         DETECT) ]_vars

\* A long run of updates with a valid hand and a face that is reported but
\* never valid, the face being required: the gate waits in LOCK_HAND.
C12_Witness ==
    /\ DETECT.REQUIRE_FACE_FOR_CAPTURE
    /\ ~validFaceSeen
    /\ validHandSeen
    /\ detection.face.present
    /\ detection.state = "LOCK_HAND"
    /\ now >= MaxTime - POLL_MS

\* C13: the stability window, auto-capture delay, cooldown duration and
\* face-required flag that the gate applies in an update are the values the
\* settings hold at that update: every update gives the result that
\* updateDetectionState gives under the current settings.
C13_GateAppliesSettings ==
    [][ now' # now =>
          detection' = updateDetectionState(
                           detection, lastDetection, detection'.hand, detection'.face, now',
                           [STABILITY_MS |-> settings.stabilityMs,
                            AUTO_CAPTURE_DELAY_MS |-> settings.autoCaptureDelay,
                            COOLDOWN_MS |-> settings.cooldownMs,
                            REQUIRE_FACE_FOR_CAPTURE |-> settings.requireFace])
      ]_vars

\* C16: the gate enters STABLE only at an update whose timestamp is at
\* least stabilityMs later than the update that armed stableStartTime, and
\* only if every update after the arming one, the entering one included,
\* reported the required detections as valid and stable.
C16_StableAfterUnbrokenWindow ==
    [][ (detection.state # "STABLE" /\ detection'.state = "STABLE")
          => /\ detection.stableStartTime # 0
             /\ now' - detection.stableStartTime >= DETECT.STABILITY_MS
             /\ ~interrupted' ]_vars

\* C17: after every update, for both values of requireFaceForCapture,
\* stableStartTime is 0 whenever the state is SEARCHING and
\* countdownStartTime is 0 whenever the state is neither STABLE nor CAPTURE.
C17_TimersZeroOutsideTheirPhase ==
    /\ detection.state = "SEARCHING" => detection.stableStartTime = 0
    /\ detection.state \notin {"STABLE", "CAPTURE"} => detection.countdownStartTime = 0

\* C18: an update moves the gate from SEARCHING, LOCK_FACE or LOCK_HAND into
\* LOCK_BOTH only when the hand is valid in that update and, with
\* requireFaceForCapture true, the face is valid in that update as well.
C18_LockBothNeedsBothNow ==
    [][ (detection.state \in {"SEARCHING", "LOCK_FACE", "LOCK_HAND"}
           /\ detection'.state = "LOCK_BOTH")
          => /\ detection'.hand.present /\ detection'.hand.score >= SCORE_HAND
             /\ DETECT.REQUIRE_FACE_FOR_CAPTURE
                   => (detection'.face.present /\ detection'.face.score >= SCORE_FACE)
      ]_vars

\* C19: in COOLDOWN, an update earlier than lastCaptureTime + cooldownMs
\* leaves the state COOLDOWN whatever it reports; an update at or after
\* lastCaptureTime + cooldownMs moves the gate to LOCK_BOTH when the
\* detections it reports are valid and to SEARCHING otherwise.
C19_CooldownExit ==
    [][ (detection.state = "COOLDOWN" /\ now' # now)
          => IF now' < detection.lastCaptureTime + DETECT.COOLDOWN_MS
             THEN detection'.state = "COOLDOWN"
             ELSE IF /\ detection'.hand.present /\ detection'.hand.score >= SCORE_HAND
                     /\ DETECT.REQUIRE_FACE_FOR_CAPTURE
                           => (detection'.face.present
                                 /\ detection'.face.score >= SCORE_FACE)
                  THEN detection'.state = "LOCK_BOTH"
                  ELSE detection'.state = "SEARCHING"
      ]_vars

\* C20: with requireFaceForCapture false, a run of updates that report a
\* valid, stable hand and no face takes the gate from SEARCHING to LOCK_HAND
\* and from LOCK_HAND to STABLE without passing through LOCK_BOTH (or
\* LOCK_FACE), from STABLE to CAPTURE, and has entered CAPTURE once the run
\* has lasted the stability window and the countdown (plus the two arming
\* updates).
C20_HandOnlyRunCaptures ==
    /\ [](  (~DETECT.REQUIRE_FACE_FOR_CAPTURE /\ handRunStart # 0)
              => detection.state \notin {"LOCK_BOTH", "LOCK_FACE"} )
    /\ [][ (~DETECT.REQUIRE_FACE_FOR_CAPTURE /\ handRunStart' # 0)
             => /\ detection.state = "SEARCHING" => detection'.state = "LOCK_HAND"
                /\ detection.state = "LOCK_HAND"
                      => detection'.state \in {"LOCK_HAND", "STABLE"}
                /\ detection.state = "STABLE"
                      => detection'.state \in {"STABLE", "CAPTURE"} ]_vars
    /\ [](  (~DETECT.REQUIRE_FACE_FOR_CAPTURE /\ handRunStart # 0
               /\ now - handRunStart >= SteadyBound(DETECT))
              => handRunCaptures >= 1 )

\* A hand-only run that started with clean timers and has just entered
\* CAPTURE, at the bound.
C20_Witness ==
    /\ ~DETECT.REQUIRE_FACE_FOR_CAPTURE
    /\ ~validFaceSeen
    /\ handRunStart # 0
    /\ now - handRunStart = SteadyBound(DETECT)
    /\ detection.state = "CAPTURE"
    /\ handRunCaptures = 1

----------------------------------------------------------------------------
(* Claims about the capture loop (specification SpecLoop) *)

\* C3: at most one tick is in flight at any time: a tick that fires while an
\* earlier detect() call has not returned is skipped.
C3_AtMostOneTickInFlight == InFlight <= 1

\* C4: while the session is stopped (paused or unmounted) the result of a
\* detect() call that was in flight is discarded: no step changes the gate
\* or triggers a capture.
C4_StaleResultDiscarded ==
    [][ (~TimerActive /\ ~TimerActive')
          => /\ detection' = detection
             /\ lastDetection' = lastDetection
             /\ autoCaptures' = autoCaptures ]_vars

\* C5: each entry of the gate into CAPTURE makes runDetection invoke
\* handleAutoCapture exactly once: when no continuation is pending, the
\* number of invocations equals the number of CAPTURE entries.
C5_OneHandlerCallPerCapture ==
    microtasks = <<>> => autoCaptures = captureCount

----------------------------------------------------------------------------
(* Claims about the seeded split (specification SpecSplit) *)

Range(seq) == { seq[i] : i \in 1..Len(seq) }

\* C6: for every n >= 0, seed and triple of non-negative ratios, train, val
\* and test are pairwise disjoint, hold no duplicate, and their union is
\* exactly {0,...,n-1}; three empty lists for n = 0.
C6_SplitIsPartition ==
    calls > 0 =>
        LET all == result.train \o result.val \o result.test
        IN  /\ Len(all) = call.n
            /\ Range(all) = 0..(call.n - 1)
            /\ Range(result.train) \cap Range(result.val) = {}
            /\ Range(result.train) \cap Range(result.test) = {}
            /\ Range(result.val) \cap Range(result.test) = {}

\* A split of MaxN indices whose three parts are all non-empty.
C6_Witness ==
    /\ calls > 0
    /\ call.n = MaxN
    /\ result.train # <<>> /\ result.val # <<>> /\ result.test # <<>>

\* C7: seededShuffle and createSplitIndices are functions of their arguments:
\* a call with the arguments of the first call returns what the first call
\* returned, whatever calls were made in between.
C7_SameArgumentsSameResult ==
    (calls > 0 /\ call = ref.call) => result = ref.result

\* The third call repeats the arguments of the first on a non-trivial array.
C7_Witness ==
    /\ calls = 3
    /\ call = ref.call
    /\ call.n = MaxN
    /\ result.shuffled # Indices(call.n)

\* C8: for ratios that sum to 1, train holds exactly floor(n*train) indices,
\* val exactly floor(n*val) and test all the others; n = 10 with
\* 0.7/0.15/0.15 gives 7, 1 and 2.
C8_FloorSizes ==
    (calls > 0 /\ RatioTotal(call.ratios) = 100) =>
        /\ Len(result.train) = (call.n * call.ratios.train) \div 100
        /\ Len(result.val) = (call.n * call.ratios.val) \div 100
        /\ Len(result.test) = call.n - Len(result.train) - Len(result.val)
        /\ (call.n = 10 /\ call.ratios = EXPORT_SPLIT) =>
               <<Len(result.train), Len(result.val), Len(result.test)>> = <<7, 1, 2>>

\* partition(10, {0.7, 0.15, 0.15}, "seedX")
C8_Witness ==
    /\ calls > 0
    /\ call.n = 10 /\ call.ratios = EXPORT_SPLIT /\ call.seed = SeedX
    /\ Len(result.train) = 7 /\ Len(result.val) = 1 /\ Len(result.test) = 2

\* C23: called with positive ratios that do not sum to 1,
\* createSplitIndices cuts train and val as for the ratios divided by their
\* sum: |train| = floor(n * train / (train + val + test)) and
\* |val| = floor(n * val / (train + val + test)).
C23_NormalizedSizes ==
    (/\ calls > 0
     /\ RatioTotal(call.ratios) # 100
     /\ call.ratios.train > 0 /\ call.ratios.val > 0 /\ call.ratios.test > 0) =>
        /\ Len(result.train) = (call.n * call.ratios.train) \div RatioTotal(call.ratios)
        /\ Len(result.val) = (call.n * call.ratios.val) \div RatioTotal(call.ratios)

\* C9: the same array of 10 elements shuffled under 'seed-1' and under
\* 'seed-2' comes out in two different orders.
C9_DifferentSeedsDiffer ==
    (/\ calls > 1
     /\ call.n = 10
     /\ ref.call.seed = Seed1
     /\ call.seed = Seed2) => result.shuffled # ref.result.shuffled

\* The shuffle under 'seed-1' followed by the shuffle under 'seed-2'.
C9_Witness ==
    /\ calls = 2
    /\ call.n = 10
    /\ ref.call.seed = Seed1
    /\ call.seed = Seed2
    /\ call.impl = "rng"

----------------------------------------------------------------------------
(* Claims about the export (specification SpecExport) *)

\* C10: exportDataset splits each class separately with the seed
\* splitSeed + '_' + classId, the archive holds every sample of the dataset
\* in exactly one file of the train, val and test folders (none dropped,
\* none twice), and metadata.csv has exactly one row per sample, each row
\* carrying the split seed.
C10_ExportWritesEverySample ==
    archive.written =>
        /\ \A i \in 1..Len(classes) :
               LET group == GroupOf(samples, classes[i].id)
                   idx == createSplitIndices(shuffleModule, Len(group), EXPORT_SPLIT,
                                             archive.splitSeed \o <<95>> \o classes[i].id,
                                             <<0, 0>>)
                   rows(split) == { archive.metadata[k].sample :
                                      k \in { j \in 1..Len(archive.metadata) :
                                                /\ archive.metadata[j].class_id = classes[i].id
                                                /\ archive.metadata[j].file_path[1] = split } }
               IN  /\ rows("train") = { group[idx.train[k] + 1].id : k \in 1..Len(idx.train) }
                   /\ rows("val") = { group[idx.val[k] + 1].id : k \in 1..Len(idx.val) }
                   /\ rows("test") = { group[idx.test[k] + 1].id : k \in 1..Len(idx.test) }
        /\ \A i \in 1..Len(samples) :
               Cardinality({ p \in DOMAIN archive.files :
                               archive.files[p] = samples[i].id }) = 1
        /\ \A i \in 1..Len(samples) :
               Cardinality({ k \in 1..Len(archive.metadata) :
                               archive.metadata[k].sample = samples[i].id }) = 1
        /\ Len(archive.metadata) = Len(samples)
        /\ \A k \in 1..Len(archive.metadata) :
               archive.metadata[k].split_seed = archive.splitSeed

\* C11: for a fixed seed and a fixed set of samples of one class, the split
\* that the export assigns to each sample does not depend on the order in
\* which the samples were collected: exporting the same samples with two
\* samples of one class exchanged gives every sample the split it has in the
\* archive.
C11_SplitIndependentOfOrder ==
    LET SplitOf(metadata, id) ==
            metadata[CHOOSE k \in 1..Len(metadata) : metadata[k].sample = id].file_path[1]
    IN
    archive.written =>
        \A i, j \in 1..Len(samples) :
            samples[i].classId = samples[j].classId =>
                LET other == exportDataset(shuffleModule, classes, Swap(samples, i, j),
                                           archive.splitSeed)
                IN  \A k \in 1..Len(samples) :
                        SplitOf(other.metadata, samples[k].id)
                            = SplitOf(archive.metadata, samples[k].id)

----------------------------------------------------------------------------
(* Claims about the detector services (specification SpecInit) *)

\* C14: an initialize() call made while an earlier call on the same
\* instance is in flight starts no second initialization, returns only
\* once that earlier call has returned, and returns what it returned; a
\* call made after a successful initialization returns true and starts no
\* initialization.
C14_ConcurrentInitializeShares ==
    \A c \in 1..Len(initCalls) :
        /\ initCalls[c].during # 0 =>
              /\ ~initCalls[c].started
              /\ initCalls[c].pc = "done" =>
                    /\ initCalls[initCalls[c].during].pc = "done"
                    /\ initCalls[c].result = initCalls[initCalls[c].during].result
        /\ (initCalls[c].pc = "done" /\ initCalls[c].during = 0 /\ ~initCalls[c].started)
              => initCalls[c].result = TRUE

----------------------------------------------------------------------------
(* Claims about the quality functions (specification SpecQuality) *)

\* C15: each quality function returns the number 0, and not NaN, for
\* degenerate input: a frame of zero width or height, an empty buffer, a
\* buffer whose length does not match width * height * 4, or for motion two
\* frames of different dimensions.
C15_ZeroOnDegenerateInput ==
    LET Degenerate(img) ==
            \/ img.width = 0
            \/ img.height = 0
            \/ Len(img.data) = 0
            \/ Len(img.data) # img.width * img.height * 4
        IsZero(v) == ~v.nan /\ v.den # 0 /\ v.num = 0
    IN  /\ (quality.fn \in {"computeBrightness", "computeBlurVar"} /\ Degenerate(frame))
              => IsZero(quality.value)
        /\ (quality.fn = "computeMotionScore"
              /\ (Degenerate(frame) \/ Degenerate(quality.prev)
                    \/ quality.prev.width # frame.width
                    \/ quality.prev.height # frame.height))
              => IsZero(quality.value)

\* C29: no two classes of the dataset page have the same slug, and so the
\* paths dataset/{split}/{slug}/{slug}_{index}.jpg that an export gives to
\* two different samples differ.
C29_SlugsAndPathsDistinct ==
    /\ \A i, j \in 1..Len(classes) : i # j => classes[i].slug # classes[j].slug
    /\ archive.written =>
          \A k, l \in 1..Len(archive.metadata) :
              k # l => archive.metadata[k].file_path # archive.metadata[l].file_path

----------------------------------------------------------------------------
(* Claims about the capture view (specification SpecPanel) *)

\* C21: reset() (togglePause calls it) leaves the gate as the constructor
\* leaves it, whatever its state was: SEARCHING, the three timers 0, no face,
\* no hand, no previous detection; so the next update gives what it gives on
\* a new gate.
C21_ResetGivesNewGate ==
    [][ isPaused' # isPaused =>
          /\ detection' = NewDetection
          /\ detection'.state = "SEARCHING"
          /\ detection'.stableStartTime = 0
          /\ detection'.countdownStartTime = 0
          /\ detection'.lastCaptureTime = 0
          /\ ~detection'.face.present /\ ~detection'.hand.present
          /\ lastDetection' = NoDetection
          /\ \A hand \in LoopHandInputs, face \in LoopFaceInputs :
                 updateDetectionState(detection', lastDetection', hand, face,
                                      now' + POLL_MS, DETECT)
                   = updateDetectionState(NewDetection, NoDetection, hand, face,
                                          now' + POLL_MS, DETECT)
      ]_vars

\* The view is paused after a capture: reset() came when lastCaptureTime
\* and the remembered detections were set.
C21_Witness ==
    /\ isPaused
    /\ captureCount >= 1
    /\ detection = NewDetection
    /\ lastDetection = NoDetection

\* C22: the gate's detection and previous detection change only in an
\* update (the continuation of detect()) and in reset() (togglePause): a
\* render with its getCountdownProgress(), the shouldCapture() of
\* runDetection and a manual capture leave them alone; and every value
\* getCountdownProgress() returned is a number in [0, 1].
C22_OnlyUpdateAndResetChangeGate ==
    /\ [][ (detection' # detection \/ lastDetection' # lastDetection) =>
              \/ isPaused' # isPaused
              \/ microtasks # <<>> /\ Head(microtasks).kind = "detect"
         ]_vars
    /\ [](/\ ~countdownProgress.nan
          /\ countdownProgress.den > 0
          /\ 0 <= countdownProgress.num
          /\ countdownProgress.num <= countdownProgress.den)

\* A render during the countdown showed a progress strictly between 0 and
\* 1, and a manual capture was made.
C22_Witness ==
    /\ manualCaptures = 1
    /\ detection.state = "STABLE"
    /\ 0 < countdownProgress.num
    /\ countdownProgress.num < countdownProgress.den

----------------------------------------------------------------------------
(* Claims about the recognition feed store (specification SpecFeed)        *)

\* C24: a pinned item is never taken out of the feed by trimming: neither
\* the trim of an overflowing addItem nor trimOldItems removes an item that
\* is pinned.
C24_PinnedSurvivesTrimming ==
    [][ lastOp'.op \in {"addItem", "trimOldItems"} =>
            \A i \in 1..Len(items) :
                items[i].pinned => \E j \in 1..Len(items') : items'[j] = items[i] ]_vars

\* C25: the feed never holds more than MAX_ITEMS items, its items are in
\* the order newest first, and the items an overflowing addItem takes out
\* are older than every item it keeps.
C25_BoundedNewestFirst ==
    /\ [](/\ Len(items) <= MAX_ITEMS
          /\ \A i, j \in 1..Len(items) : i < j => items[i].id > items[j].id)
    /\ [][ lastOp'.op = "addItem" =>
              /\ items'[1].id = lastOp'.id
              /\ \A r \in lastOp'.removed :
                    \A j \in 1..Len(items') : r < items'[j].id ]_vars

\* An addItem on a full feed has just taken the oldest item out.
C25_Witness ==
    /\ lastOp.op = "addItem"
    /\ lastOp.removed # {}
    /\ Len(items) = MAX_ITEMS

\* C27: trimOldItems on a feed of more than 0.8 * MAX_ITEMS items with an
\* unpinned item takes the oldest unpinned item out and keeps every pinned
\* item.
C27_TrimRemovesOldestUnpinned ==
    [][ (/\ lastOp'.op = "trimOldItems"
         /\ 5 * Len(items) > 4 * MAX_ITEMS
         /\ \E i \in 1..Len(items) : ~items[i].pinned) =>
            LET unpinned == { i \in 1..Len(items) : ~items[i].pinned }
                oldest == CHOOSE i \in unpinned : \A j \in unpinned : j <= i
            IN  /\ items[oldest].id \in lastOp'.removed
                /\ \A i \in 1..Len(items) :
                      items[i].pinned => items[i].id \notin lastOp'.removed ]_vars

\* C28: memoryUsage is the sum of the blob sizes of the items in the feed
\* and is not negative, and removeItem with an id that is not in the feed
\* leaves the items and memoryUsage as they are.
C28_MemoryIsSumOfBlobs ==
    /\ [](LET sum[k \in 0..Len(items)] ==
                  IF k = 0 THEN 0 ELSE sum[k - 1] + items[k].size
          IN  memoryUsage = sum[Len(items)] /\ memoryUsage >= 0)
    /\ [][ (/\ lastOp'.op = "removeItem"
             /\ \A i \in 1..Len(items) : items[i].id # lastOp'.id) =>
                UNCHANGED <<items, memoryUsage>> ]_vars

\* An item with a blob was removed from a feed that still holds blobs, and
\* a removeItem with an id that is not in the feed came after it.
C28_Witness ==
    /\ lastOp.op = "removeItem"
    /\ lastOp.removed = {}
    /\ Len(items) >= 2
    /\ memoryUsage >= 3
    /\ feedAdds > Len(items)
    /\ \A i \in 1..Len(items) : items[i].id # lastOp.id

----------------------------------------------------------------------------
(* Claims about the Space key of the dataset CapturePanel (SpecKeys)       *)

\* C26: with a class selected, a press of Space released before 500 ms
\* starts exactly one single capture and no burst, and a press held for
\* 500 ms or more starts exactly one burst and no single capture.
C26_SpaceTapOrHold ==
    (capturePanel.presses > 0 /\ ~capturePanel.spaceDown /\ capturePanel.selectedClass) =>
        IF capturePanel.held
        THEN /\ capturePanel.bursts = capturePanel.bursts0 + 1
             /\ capturePanel.singles = capturePanel.singles0
        ELSE /\ capturePanel.singles = capturePanel.singles0 + 1
             /\ capturePanel.bursts = capturePanel.bursts0

----------------------------------------------------------------------------
(* Claims about integratedDetectionService (specification SpecIntegrated)  *)

\* C30: every initialize() call that has returned gave the report of the
\* first call, and a report says true for a detector only if that detector
\* is initialized.
C30_SameTruthfulReport ==
    \A c \in 1..Len(integrated.calls) :
        integrated.calls[c].pc = "returned" =>
            /\ integrated.calls[1].pc = "returned" =>
                  /\ integrated.calls[c].face = integrated.calls[1].face
                  /\ integrated.calls[c].hand = integrated.calls[1].hand
            /\ integrated.calls[c].face => integrated.face
            /\ integrated.calls[c].hand => integrated.hand

====
